---------------------------- MODULE Spec2Model ----------------------------
(***************************************************************************)
(* GraphFM (src/code/graphfm.py, src/movielens/code/graphfm.py).           *)
(*                                                                         *)
(* Tensors are nested sequences, T[b][f][c], 1-based; the source's 0-based *)
(* block and field numbers are kept as numbers (block, field) and shifted  *)
(* by one only where a sequence is indexed.                                *)
(*                                                                         *)
(* Arithmetic is fixed point over the integers:                            *)
(*   - a selector score is the numerator of a fraction over ScoreScale;    *)
(*     the sigmoid's range is the open interval (0,1), so the numerators   *)
(*     are 1 .. ScoreScale-1;                                              *)
(*   - an attention weight is a pair [num, den] (the fraction num/den);    *)
(*   - exp is the exponential to base 2 of the logit numerator, i.e. the   *)
(*     softmax is taken at a fixed temperature;                            *)
(*   - layer normalisation divides by the integer square root.             *)
(* The learned variables of a session are one of a finite family of        *)
(* assignments, indexed by a weight id; Param gives the entries.           *)
(***************************************************************************)
EXTENDS Integers, Sequences, FiniteSets, TLC

(***************************************************************************)
(* Bounds of the model.                                                    *)
(***************************************************************************)
MaxWeightId == 1
MaxN == 4
MaxBatchSize == 2
MaxSteps == 2
MaxEvals == 2
MaxLoss == 2
MaxStopEvals == 6
MaxStopLoss == 4

(***************************************************************************)
(* Configuration of the model under study (args of GraphFM.__init__).      *)
(***************************************************************************)
feature_size == 3
field_size == 3
embedding_size == 2
blocks == 2
heads == 2
block_shape == <<2, 2>>
has_residual == TRUE
GslHidden == 16
ScoreScale == 4
AttScale == 4

WeightIds == 0 .. MaxWeightId

(***************************************************************************)
(* Scalar and vector helpers.                                              *)
(***************************************************************************)
\* The sequence t with its entries computed once: TLC evaluates a function
\* constructor anew at each application unless it has been compared.
Eager(t) == IF t = <<>> THEN t ELSE t

RECURSIVE SumTo(_, _)
SumTo(s, n) == IF n = 0 THEN 0 ELSE s[n] + SumTo(s, n - 1)

SumSeq(s) == SumTo(s, Len(s))

RECURSIVE ISqrtFrom(_, _)
ISqrtFrom(x, r) == IF (r + 1) * (r + 1) > x THEN r ELSE ISqrtFrom(x, r + 1)

ISqrt(x) == ISqrtFrom(x, 0)

\* Division rounding toward zero, as a fixed-point quotient.
QuotT(a, b) == IF a >= 0 THEN a \div b ELSE -((-a) \div b)

relu(x) == IF x > 0 THEN x ELSE 0

linear(x) == x

\* tf.nn.sigmoid on the fixed-point grid: monotone, 1/2 at 0, saturating,
\* never 0 or 1.
sigmoid_grid(v) ==
    IF v < 1 THEN 1 ELSE IF v > ScoreScale - 1 THEN ScoreScale - 1 ELSE v

sigmoid(z) == sigmoid_grid(z + ScoreScale \div 2)

exp(x) == 2 ^ x

(***************************************************************************)
(* The variable store.  A variable is named as the source names it:        *)
(* <<kind, block, field>>.  Param(w, name, r, c) is entry (r, c) of that   *)
(* variable under weight assignment w, in {-1, 0, 1}.                      *)
(***************************************************************************)
VarEmb == 0
VarAtt == 1
VarW == 2
VarRes == 3
VarGsl1 == 4
VarGsl2 == 5
VarPred == 6

Param(w, name, r, c) ==
    (((2 * w + 8 * name[1] + 13 * name[2] + 6 * name[3] + 4 * r + 3 * c + r * c) % 7) % 3) - 1

\* Faulty variant of AttName: the attention-score layer named per field,
\* 'att_b%d_f%d' % (block, field).
att_per_field(block, field) == <<VarAtt, block, field>>

AttName(block, field) == <<VarAtt, block, 0>>
WName(block, field) == <<VarW, block, field>>
ResName(block, field) == <<VarRes, block, field>>
Gsl1Name(block, field) == <<VarGsl1, block, 0>>
Gsl2Name(block, field) == <<VarGsl2, block, 0>>

\* The activation argument of tf.layers.dense, applied to x.
activation(act, x) ==
    CASE act = "relu" -> relu(x)
      [] act = "sigmoid" -> sigmoid(x)
      [] act = "None" -> linear(x)

\* tf.layers.dense on one vector x: act(x . kernel + bias), `units` wide.
\* Row 0 of the variable is the bias, rows 1..Len(x) the kernel.
dense_vec(w, name, x, units, use_bias, act) ==
    Eager([u \in 1 .. units |->
        activation(act,
                   SumSeq(Eager([c \in 1 .. Len(x) |-> x[c] * Param(w, name, c, u)]))
                   + (IF use_bias THEN Param(w, name, 0, u) ELSE 0))])

\* tf.layers.dense applied to the last axis of a rank-3 tensor.
dense(w, name, T, units, use_bias, act) ==
    Eager([b \in 1 .. Len(T) |->
        Eager([f \in 1 .. Len(T[b]) |-> dense_vec(w, name, T[b][f], units, use_bias, act)])])

(***************************************************************************)
(* Tensor layout operators (tf.split, tf.concat, tf.tile, tf.squeeze).     *)
(***************************************************************************)
RECURSIVE concat_axis0(_)
concat_axis0(parts) ==
    IF parts = <<>> THEN <<>> ELSE Head(parts) \o concat_axis0(Tail(parts))

\* tf.split(T, n, axis=2): n tensors, each 1/n of the last axis.
split_axis2(T, n) ==
    LET wd == Len(T[1][1]) \div n
    IN  Eager([h \in 1 .. n |->
            Eager([b \in 1 .. Len(T) |->
                Eager([f \in 1 .. Len(T[b]) |-> SubSeq(T[b][f], (h - 1) * wd + 1, h * wd)])])])

\* tf.split(T, n, axis=0): n tensors, each 1/n of the first axis.
split_axis0(T, n) ==
    LET rows == Len(T) \div n
    IN  Eager([h \in 1 .. n |-> SubSeq(T, (h - 1) * rows + 1, h * rows)])

\* tf.concat(parts, axis=2).
concat_axis2(parts) ==
    Eager([b \in 1 .. Len(parts[1]) |->
        Eager([f \in 1 .. Len(parts[1][b]) |->
            concat_axis0(Eager([h \in 1 .. Len(parts) |-> parts[h][b][f]]))])])

\* tf.concat(parts, axis=1).
concat_axis1(parts) ==
    Eager([b \in 1 .. Len(parts[1]) |->
        concat_axis0(Eager([p \in 1 .. Len(parts) |-> parts[p][b]]))])

\* Faulty variant of tile_axis0: every row repeated n times in place, rows
\* b*n+h, where the head-stacked layout of line 75 has rows h*B+b.
repeat_axis0(T, n) == Eager([r \in 1 .. n * Len(T) |-> T[((r - 1) \div n) + 1]])

\* tf.tile(T, [n, 1, 1]).
tile_axis0(T, n) == concat_axis0(Eager([h \in 1 .. n |-> T]))

\* The shape tf.squeeze(S) leaves: every axis of size 1 is removed.
squeeze_shape(shape) == SelectSeq(shape, LAMBDA dim : dim # 1)

(***************************************************************************)
(* normalize: layer normalisation over the last axis.  beta and gamma are  *)
(* at their initial values (zeros, ones) in every weight assignment.       *)
(***************************************************************************)
layer_norm(dev, spread, gamma, beta) ==
    Eager([c \in 1 .. Len(dev) |->
        gamma * QuotT(dev[c], IF spread = 0 THEN 1 ELSE spread) + beta])

deviations(x, total) == Eager([c \in 1 .. Len(x) |-> Len(x) * x[c] - total])

spread_of(dev) == ISqrt(SumSeq(Eager([c \in 1 .. Len(dev) |-> dev[c] * dev[c]])) \div Len(dev))

std_norm(dev) == layer_norm(dev, spread_of(dev), 1, 0)

normalize_vec(x) == std_norm(deviations(x, SumSeq(x)))

normalize(inputs) ==
    Eager([b \in 1 .. Len(inputs) |->
        Eager([f \in 1 .. Len(inputs[b]) |-> normalize_vec(inputs[b][f])])])

(***************************************************************************)
(* gat_attention, lines 45-116.                                            *)
(***************************************************************************)
\* tf.nn.top_k(row, k).values: the k largest entries of row, largest first.
RECURSIVE top_k(_, _)
top_k(row, k) ==
    IF k = 0 THEN <<>>
    ELSE LET i == CHOOSE i \in 1 .. Len(row) : \A j \in 1 .. Len(row) : row[j] <= row[i]
         IN  <<row[i]>> \o top_k(SubSeq(row, 1, i - 1) \o SubSeq(row, i + 1, Len(row)), k - 1)

\* tf.reduce_min over the last axis.
reduce_min(vals) ==
    vals[CHOOSE i \in 1 .. Len(vals) : \A j \in 1 .. Len(vals) : vals[i] <= vals[j]]

\* Faulty variant of greater_equal: tf.greater in place of tf.greater_equal.
greater_than(row, kth) == Eager([f \in 1 .. Len(row) |-> IF row[f] > kth THEN 1 ELSE 0])

\* tf.cast(tf.greater_equal(S, kth), tf.float32) for one row.
greater_equal(row, kth) == Eager([f \in 1 .. Len(row) |-> IF row[f] >= kth THEN 1 ELSE 0])

\* The two-layer scorer of lines 81-83: [batch_size, field_size, 1].
gsl_scores(w, values, block, field) ==
    dense(w, Gsl2Name(block, field),
          dense(w, Gsl1Name(block, field), values, GslHidden, TRUE, "relu"),
          1, TRUE, "sigmoid")

\* Faulty variant of multiply_row: the 0/1 indicator of line 87 is the
\* selector's output, without the multiplication of line 88.
indicator_row(row, topk) == topk

\* Line 88, S * topk, for one row.
multiply_row(row, topk) == Eager([f \in 1 .. Len(row) |-> row[f] * topk[f]])

\* Faulty variant of keep_top_k_row: exactly the k fields tf.nn.top_k
\* returns the indices of are kept (among equal scores, the lower index).
keep_indices_row(row, k) ==
    Eager([f \in 1 .. Len(row) |->
        IF Cardinality({g \in 1 .. Len(row) : row[g] > row[f] \/ (row[g] = row[f] /\ g < f)}) < k
        THEN row[f]
        ELSE 0])

\* Lines 85-88 on one row of the squeezed scores: keep the top k nodes.
keep_top_k_row(row, k) ==
    multiply_row(row, greater_equal(row, reduce_min(top_k(row, k))))

\* Lines 85-88 on the squeezed scores S[b][f].
keep_top_k(S, k) == Eager([b \in 1 .. Len(S) |-> keep_top_k_row(S[b], k)])

\* Faulty variant of softmax: normalised over the last axis, axis=-1, the
\* default of tf.nn.softmax.
softmax_last_axis(A_) ==
    Eager([r \in 1 .. Len(A_) |->
        Eager([f \in 1 .. Len(A_[r]) |->
            Eager([c \in 1 .. Len(A_[r][f]) |->
                [num |-> exp(A_[r][f][c]),
                 den |-> SumSeq(Eager([g \in 1 .. Len(A_[r][f]) |-> exp(A_[r][f][g])]))]])])])

\* Faulty variant of softmax: a field whose logit is 0 is masked out of the
\* softmax and gets weight 0, as if line 92 had set its logit to -inf.
softmax_selected(A_) ==
    Eager([r \in 1 .. Len(A_) |->
        Eager([f \in 1 .. Len(A_[r]) |->
            Eager([c \in 1 .. Len(A_[r][f]) |->
                [num |-> IF A_[r][f][c] = 0 THEN 0 ELSE exp(A_[r][f][c]),
                 den |-> 1 + SumSeq(Eager([g \in 1 .. Len(A_[r]) |->
                                 IF A_[r][g][c] = 0 THEN 0 ELSE exp(A_[r][g][c])]))]])])])

\* tf.nn.softmax(A_, axis=1): over the field axis, per row and channel.
softmax(A_) ==
    Eager([r \in 1 .. Len(A_) |->
        Eager([f \in 1 .. Len(A_[r]) |->
            Eager([c \in 1 .. Len(A_[r][f]) |->
                [num |-> exp(A_[r][f][c]),
                 den |-> SumSeq(Eager([g \in 1 .. Len(A_[r]) |-> exp(A_[r][g][c])]))]])])])

\* Lines 102-103: tf.multiply(weights, H_) summed over the field axis.
weighted_sum(weights, H_) ==
    Eager([r \in 1 .. Len(H_) |->
        << Eager([c \in 1 .. Len(H_[r][1]) |->
              QuotT(AttScale * SumSeq(Eager([f \in 1 .. Len(H_[r]) |->
                                          weights[r][f][1].num * H_[r][f][c]])),
                    weights[r][1][1].den)]) >>])

\* The session raises inside the selector when the squeezed score tensor is
\* not of rank 2 (line 90 transposes, and line 91 tiles, three axes) or when
\* top_k is asked for more entries than the last axis holds (line 85).
gsl_raises(values, k) ==
    LET shape == squeeze_shape(<<Len(values), Len(values[1]), 1>>)
    IN  \/ Len(shape) # 2
        \/ k > shape[Len(shape)]

\* Line 84 where the squeeze leaves [batch_size, field_size].
squeeze(S3) == Eager([b \in 1 .. Len(S3) |-> Eager([f \in 1 .. Len(S3[b]) |-> S3[b][f][1]])])

\* Line 89, tf.expand_dims(S, -1).
expand_dims(S) == Eager([b \in 1 .. Len(S) |-> Eager([f \in 1 .. Len(S[b]) |-> <<S[b][f]>>])])

\* Line 90, tf.transpose(S, [0, 2, 1]).
transpose_021(S) ==
    Eager([b \in 1 .. Len(S) |->
        Eager([c \in 1 .. Len(S[b][1]) |-> Eager([f \in 1 .. Len(S[b]) |-> S[b][f][c]])])])

\* Line 92, A_ = S * A_ (S is one channel wide).
multiply_logits(S, A_) ==
    Eager([r \in 1 .. Len(A_) |->
        Eager([f \in 1 .. Len(A_[r]) |->
            Eager([c \in 1 .. Len(A_[r][f]) |-> S[r][f][1] * A_[r][f][c]])])])

\* Lines 109-114: residual connection, relu, normalize.
residual_relu_normalize(outputs, Q_res) ==
    normalize(Eager([b \in 1 .. Len(outputs) |->
                  Eager([q \in 1 .. Len(outputs[b]) |->
                      Eager([c \in 1 .. Len(outputs[b][q]) |->
                          relu(outputs[b][q][c]
                               + (IF has_residual THEN AttScale * Q_res[b][q][c] ELSE 0))])])]))

\* Lines 95-116, from the attention weights on.  The record keeps, next to
\* the function's outputs and vis, the scores of line 84, the selector's
\* output S of line 89 and the softmax weights of line 95.
attend(weights, H_, Q_res, S, scores, num_heads) ==
    [raised |-> FALSE,
     outputs |-> residual_relu_normalize(
                     concat_axis2(split_axis0(weighted_sum(weights, H_), num_heads)),
                     Q_res),
     vis |-> transpose_021(S),
     scores |-> scores,
     S |-> S,
     weights |-> weights]

\* Lines 95-116, from the masked logits on.  The record of attend, with the
\* head-stacked logits A_ of line 75 and the masked logits of line 92.
attend_logits(logits, A_, H_, Q_res, S, scores, num_heads) ==
    attend(softmax(logits), H_, Q_res, S, scores, num_heads)
        @@ [A_ |-> A_, logits |-> logits]

\* Lines 89-116, from the selected scores S [batch_size, field_size, 1] on.
mask_and_attend(S, A_, H_, Q_res, scores, num_heads) ==
    attend_logits(multiply_logits(tile_axis0(S, num_heads), A_),
                  A_, H_, Q_res, S, scores, num_heads)

\* Lines 84-116, from the scorer's output [batch_size, field_size] on.
select_and_attend(scores, A_, H_, Q_res, k, num_heads) ==
    mask_and_attend(expand_dims(keep_top_k(scores, k)), A_, H_, Q_res, scores, num_heads)

\* Line 84 where the squeeze leaves [field_size]: a batch of one sample.
squeeze_all(S3) == Eager([f \in 1 .. Len(S3[1]) |-> S3[1][f][1]])

\* Lines 84-91 of a run that raises.  Where the squeeze leaves one axis
\* that holds k entries or more, lines 85-89 still compute on it (scores
\* and S below, of rank 1) and line 90 or 91 raises; otherwise line 85
\* raises.
selector_raised(scores, k) ==
    [raised |-> TRUE, outputs |-> <<>>, vis |-> <<>>,
     scores |-> scores,
     S |-> IF scores = <<>> THEN <<>> ELSE keep_top_k_row(scores, k),
     weights |-> <<>>]

gat_attention(w, queries, values, num_units, num_heads, k, block, field) ==
    IF gsl_raises(values, k)
    THEN selector_raised(
             IF Len(values) = 1 /\ k <= Len(values[1])
             THEN squeeze_all(gsl_scores(w, values, block, field))
             ELSE <<>>,
             k)
    ELSE select_and_attend(
             squeeze(gsl_scores(w, values, block, field)),
             concat_axis0(split_axis2(
                 dense(w, AttName(block, field), values, num_heads, TRUE, "relu"), num_heads)),
             concat_axis0(split_axis2(
                 dense(w, WName(block, field), values, num_units, FALSE, "None"), num_heads)),
             dense(w, ResName(block, field), queries, num_units, TRUE, "relu"),
             k, num_heads)

(***************************************************************************)
(* The graph of GraphFM._init_graph, lines 181-247, as one session run in  *)
(* inference mode (train_phase False, every keep probability 1.0, so each  *)
(* dropout is the identity).  deep_layers is None, loss_type is "logloss". *)
(***************************************************************************)
\* Lines 181-185: lookup in the shared table, scaled by the field value.
embedding_lookup(w, feat_index, feat_value) ==
    Eager([b \in 1 .. Len(feat_index) |->
        Eager([m \in 1 .. field_size |->
            Eager([c \in 1 .. embedding_size |->
                Param(w, <<VarEmb, 0, 0>>, feat_index[b][m], c) * feat_value[b][m]])])])

\* Lines 210-211: field j's state, and its product with every field's state.
field_state(h, j) == Eager([b \in 1 .. Len(h) |-> << h[b][j + 1] >>])

state_all(h, j) ==
    Eager([b \in 1 .. Len(h) |->
        Eager([f \in 1 .. Len(h[b]) |->
            Eager([c \in 1 .. Len(h[b][f]) |-> h[b][j + 1][c] * h[b][f][c]])])])

\* Lines 212-220: the attention block of field j at layer i.
field_block(w, h, i, j, ks) ==
    gat_attention(w, field_state(h, j), state_all(h, j),
                  block_shape[i + 1], heads, ks[i + 1], i, j)

\* Lines 223-224: the fields' states and visibilities, concatenated.
layer_concat(res) ==
    IF \E j \in 1 .. Len(res) : res[j].raised
    THEN [raised |-> TRUE, h |-> <<>>, v |-> <<>>, fields |-> res]
    ELSE [raised |-> FALSE,
          h |-> concat_axis1(Eager([j \in 1 .. Len(res) |-> res[j].outputs])),
          v |-> concat_axis1(Eager([j \in 1 .. Len(res) |-> res[j].vis])),
          fields |-> res]

\* Lines 207-224: one layer; every field reads the same h.
block_layer(w, h, i, ks) ==
    layer_concat(Eager([j \in 1 .. field_size |-> field_block(w, h, i, j - 1, ks)]))

\* Lines 206-226: the layers in sequence; h_list and v_list grow by one each.
\* trace keeps what gat_attention computed for every field of every layer.
RECURSIVE block_stack(_, _, _, _, _, _, _)
stack_next(w, layer, i, ks, h_list, v_list, trace) ==
    IF layer.raised
    THEN [raised |-> TRUE, h_list |-> <<>>, v_list |-> <<>>,
          trace |-> Append(trace, layer.fields)]
    ELSE block_stack(w, layer.h, i + 1, ks, Append(h_list, layer.h), Append(v_list, layer.v),
                     Append(trace, layer.fields))

block_stack(w, h, i, ks, h_list, v_list, trace) ==
    IF i = blocks
    THEN [raised |-> FALSE, h_list |-> h_list, v_list |-> v_list, trace |-> trace]
    ELSE stack_next(w, block_layer(w, h, i, ks), i, ks, h_list, v_list, trace)

\* Lines 228-229: [blocks, batch, M, M] to [batch, blocks, M, M].
transpose_1023(v_list, batch) ==
    Eager([b \in 1 .. batch |-> Eager([i \in 1 .. Len(v_list) |-> v_list[i][b]])])

\* Line 237: tf.reduce_mean(y_deep, axis=1), in units of 1/AttScale.
reduce_mean_axis1(y_deep) ==
    Eager([b \in 1 .. Len(y_deep) |->
        Eager([c \in 1 .. Len(y_deep[b][1]) |->
            QuotT(AttScale * SumSeq(Eager([f \in 1 .. Len(y_deep[b]) |-> y_deep[b][f][c]])),
                  Len(y_deep[b]))])])

\* Lines 239-247: project to one logit per sample, then the sigmoid.
project(w, flat) ==
    Eager([b \in 1 .. Len(flat) |->
        << sigmoid(QuotT(SumSeq(Eager([c \in 1 .. Len(flat[b]) |->
                                    flat[b][c] * Param(w, <<VarPred, 0, 0>>, c, 1)])),
                         AttScale)
                   + Param(w, <<VarPred, 0, 0>>, 0, 1)) >>])

\* Lines 236-247: concatenate the layers, mean-pool the fields, project.
prediction(w, h_list) == project(w, reduce_mean_axis1(concat_axis2(h_list)))

graph_result(w, stack, batch) ==
    IF stack.raised
    THEN [raised |-> TRUE, out |-> <<>>, v_list |-> <<>>, trace |-> stack.trace]
    ELSE [raised |-> FALSE,
          out |-> prediction(w, stack.h_list),
          v_list |-> transpose_1023(stack.v_list, batch),
          trace |-> stack.trace]

\* sess.run([self.out, self.v_list]) on one batch.
run_graph(w, ks, feat_index, feat_value) ==
    graph_result(w,
                 block_stack(w, embedding_lookup(w, feat_index, feat_value), 0, ks,
                             <<>>, <<>>, <<>>),
                 Len(feat_index))

(***************************************************************************)
(* The data the callers pass.  A dataset is the three parallel lists       *)
(* (Xi, Xv, y) of the source; its samples are picked, with repetition,     *)
(* from two samples with distinct features and distinct labels.  The       *)
(* callers' datasets alternate the two samples, or hold one sample twice   *)
(* (one class only).                                                       *)
(***************************************************************************)
Samples ==
    << [Xi |-> <<1, 1, 0>>, Xv |-> <<1, 1, 1>>, y |-> 1],
       [Xi |-> <<2, 0, 1>>, Xv |-> <<1, 1, 1>>, y |-> 0] >>

Picks(n) == UNION {[1 .. len -> 1 .. Len(Samples)] : len \in 0 .. n}

dataset(pick) ==
    [Xi |-> [n \in 1 .. Len(pick) |-> Samples[pick[n]].Xi],
     Xv |-> [n \in 1 .. Len(pick) |-> Samples[pick[n]].Xv],
     y |-> [n \in 1 .. Len(pick) |-> Samples[pick[n]].y]]

alternating(len) == dataset([n \in 1 .. len |-> 1 + (n % 2)])

DataSets == {alternating(len) : len \in 0 .. MaxN} \cup {dataset(<<1, 1>>)}

\* The non-empty batches a session run is fed: at most MaxBatchSize samples.
Batches == {<<d.Xi, d.Xv>> : d \in {dataset(pick) : pick \in Picks(MaxBatchSize) \ {<<>>}}}

\* The ks the model is configured with: every k of 1 .. field_size occurs
\* at every layer.
KsChoices == {<<2, 1>>, <<3, 2>>, <<1, 3>>}

(***************************************************************************)
(* The session.  Forward[w][ks][batch] is sess.run([self.out, self.v_list])*)
(* on the graph built for ks, with the variables at w, fed the batch:      *)
(* computed once for every batch a session run can be fed.                 *)
(***************************************************************************)
Forward ==
    Eager([w \in WeightIds |->
        Eager([ks \in KsChoices |->
            Eager([batch \in Batches |-> run_graph(w, ks, batch[1], batch[2])])])])

\* self.sess.run(fetches, feed_dict) of the forward pass.
sess_run(w, ks, feed_dict) == Forward[w][ks][<<feed_dict.feat_index, feed_dict.feat_value>>]

\* A variable that holds None or an array: None, and the array a.
None == [none |-> TRUE, array |-> <<>>]

array(a) == [none |-> FALSE, array |-> a]

Min(a, b) == IF a < b THEN a ELSE b

\* Python's s[start:end] for 0 <= start, 0 <= end.
slice(s, start, end) == SubSeq(s, start + 1, Min(end, Len(s)))

\* get_batch, lines 351-355.
get_batch(Xi, Xv, y, batch_size, index) ==
    LET start == index * batch_size
        end == IF (index + 1) * batch_size < Len(y) THEN (index + 1) * batch_size ELSE Len(y)
    IN  << slice(Xi, start, end),
           slice(Xv, start, end),
           [n \in 1 .. Len(slice(y, start, end)) |-> << slice(y, start, end)[n] >>] >>

\* np.reshape(batch_out, (num_batch,)).
reshape(batch_out, num_batch) == [n \in 1 .. num_batch |-> batch_out[n][1]]

(***************************************************************************)
(* The state: one GraphFM object, its session, and the save_path           *)
(* directory, which outlives the object.                                   *)
(*   args        the arguments of __init__ the operations read             *)
(*   sess        the session's variables: [weights, global_step]           *)
(*   best_loss   self.best_loss                                            *)
(*   valid_loss  self.valid_loss                                           *)
(*   ckpt        the checkpoint tf.train.get_checkpoint_state(save_path)   *)
(*               names, [weights, global_step], or None                    *)
(*   ret         the last call: its name, its arguments, whether it        *)
(*               raised, what it returned, the feed_dicts it ran           *)
(*   hist        history of the object: the fit_on_batch calls made, the   *)
(*               optimizer steps run, whether restore was called, the      *)
(*               evaluation that wrote ckpt (0: none of this object's)     *)
(*   fwd         a forward pass in progress, field by field                *)
(* self.train_loss, self.train_result and self.valid_result are appended   *)
(* to and never read; they are left out.  Losses are multiples of          *)
(* 1/LossUnit; keep probabilities are tenths.                              *)
(***************************************************************************)
VARIABLES args, sess, best_loss, valid_loss, ckpt, ret, hist, fwd

vars == <<args, sess, best_loss, valid_loss, ckpt, ret, hist, fwd>>

objVars == <<args, sess, best_loss, valid_loss, ckpt, ret, hist>>

LossUnit == 2

Losses == 0 .. MaxLoss

\* 1.0 as a keep probability, in tenths.
keep_one == 10

\* args.dropout_keep_prob, [3] as line 176 says.
dropout_keep_prob == <<7, 8, 9>>

\* The object the methods read.
Self == [args |-> args, sess |-> sess, best_loss |-> best_loss, valid_loss |-> valid_loss]

\* Faulty variant of feed_inference: the configured keep probabilities.
feed_inference_configured(self, batch) ==
    [feat_index |-> batch[1],
     feat_value |-> batch[2],
     label |-> batch[3],
     dropout_keep_prob |-> self.args.dropout_keep_prob,
     train_phase |-> FALSE]

\* Lines 449-453 and 483-487: the feed_dict of an inference pass.
feed_inference(self, batch) ==
    [feat_index |-> batch[1],
     feat_value |-> batch[2],
     label |-> batch[3],
     dropout_keep_prob |-> [p \in 1 .. Len(self.args.dropout_keep_prob) |-> keep_one],
     train_phase |-> FALSE]

\* Lines 367-371: the feed_dict of a training pass.
feed_training(self, Xi, Xv, y) ==
    [feat_index |-> Xi,
     feat_value |-> Xv,
     label |-> y,
     dropout_keep_prob |-> self.args.dropout_keep_prob,
     train_phase |-> TRUE]

\* What ret keeps of a feed_dict: who issued the pass, how many samples it
\* feeds, and its run-mode.
fed(by, feed_dict) ==
    [by |-> by,
     samples |-> Len(feed_dict.feat_index),
     dropout_keep_prob |-> feed_dict.dropout_keep_prob,
     train_phase |-> feed_dict.train_phase]

\* dummy_y = [1] * len(Xi).
dummy(Xi) == [n \in 1 .. Len(Xi) |-> 1]

\* predict, lines 436-464: the while loop from batch_index on.
RECURSIVE predict_while(_, _, _, _, _, _, _)
predict_while(self, Xi, Xv, dummy_y, batch_index, y_pred, feeds) ==
    LET batch == get_batch(Xi, Xv, dummy_y, self.args.batch_size, batch_index)
        num_batch == Len(batch[3])
        feed_dict == feed_inference(self, batch)
        run == sess_run(self.sess.weights, self.args.ks, feed_dict)
    IN  IF Len(batch[1]) = 0
        THEN [raised |-> FALSE, y_pred |-> y_pred, feeds |-> feeds]
        ELSE IF run.raised
        THEN [raised |-> TRUE, y_pred |-> None, feeds |-> Append(feeds, fed("predict", feed_dict))]
        ELSE predict_while(self, Xi, Xv, dummy_y, batch_index + 1,
                           IF batch_index = 0
                           THEN array(reshape(run.out, num_batch))
                           ELSE array(y_pred.array \o reshape(run.out, num_batch)),
                           Append(feeds, fed("predict", feed_dict)))

predict(self, Xi, Xv) == predict_while(self, Xi, Xv, dummy(Xi), 0, None, <<>>)

\* visualize, lines 466-514: the while loop from batch_index on.  The
\* record of a sample is [Xi, Xv, y, out, vis], lines 502-509.
records(batch, run, num_batch) ==
    [n \in 1 .. num_batch |->
        [Xi |-> batch[1][n], Xv |-> batch[2][n], y |-> batch[3][n],
         out |-> run.out[n], vis |-> run.v_list[n]]]

RECURSIVE visualize_while(_, _, _, _, _, _, _)
visualize_while(self, Xi, Xv, dummy_y, batch_index, visualization, feeds) ==
    LET batch == get_batch(Xi, Xv, dummy_y, self.args.batch_size, batch_index)
        num_batch == Len(batch[3])
        feed_dict == feed_inference(self, batch)
        run == sess_run(self.sess.weights, self.args.ks, feed_dict)
    IN  IF Len(batch[1]) = 0
        THEN [raised |-> FALSE, visualization |-> visualization, feeds |-> feeds]
        ELSE IF run.raised
        THEN [raised |-> TRUE, visualization |-> <<>>,
              feeds |-> Append(feeds, fed("visualize", feed_dict))]
        ELSE visualize_while(self, Xi, Xv, dummy_y, batch_index + 1,
                             visualization \o records(batch, run, num_batch),
                             Append(feeds, fed("visualize", feed_dict)))

\* visualize as it would be if it batched the caller's labels instead of
\* dummy_y.
visualize_labels(self, Xi, Xv, y) == visualize_while(self, Xi, Xv, y, 0, <<>>, <<>>)

visualize(self, Xi, Xv, y) == visualize_while(self, Xi, Xv, dummy(Xi), 0, <<>>, <<>>)

\* roc_auc_score (self.eval_metric, line 154) raises ValueError unless both
\* classes occur in y.
one_class(y) == \A m, n \in 1 .. Len(y) : y[m] = y[n]

\* evaluate, lines 516-525.  np.clip raises on the None predict returns for
\* no sample.  loss is what log_loss returns: the value of a real function
\* of the real scores, which the score grid does not determine.
evaluate(self, Xi, Xv, y, loss) ==
    LET p == predict(self, Xi, Xv)
    IN  IF p.raised \/ p.y_pred = None \/ one_class(y)
        THEN [raised |-> TRUE, feeds |-> p.feeds]
        ELSE [raised |-> FALSE, loss |-> loss, feeds |-> p.feeds]

\* fit_on_batch, lines 366-373.  A training pass raises where the inference
\* pass on the same batch does: dropout changes no shape.  When it runs, the
\* optimizer moves every variable (to the assignment w_new) and adds one to
\* global_step, lines 261-278.
fit_on_batch(self, Xi, Xv, y, w_new) ==
    LET feed_dict == feed_training(self, Xi, Xv, y)
    IN  IF sess_run(self.sess.weights, self.args.ks, feed_dict).raised
        THEN [raised |-> TRUE, sess |-> self.sess,
              feeds |-> <<fed("fit_on_batch", feed_dict)>>]
        ELSE [raised |-> FALSE,
              sess |-> [weights |-> w_new, global_step |-> self.sess.global_step + 1],
              feeds |-> <<fed("fit_on_batch", feed_dict)>>]

\* The generator of np.random.  Its state is a number; np.random.shuffle on
\* a list of len entries with the generator at rng applies the permutation
\* permuted(rng, len) and leaves the generator at drawn_on(rng, len).  State
\* 0 gives the permutation that leaves the order, state 1 the reversal, the
\* states after them the same following a rotation.
permuted(rng, len) ==
    [n \in 1 .. len |->
        (((IF rng % 2 = 1 THEN len + 1 - n ELSE n) - 1 + rng \div 2) % len) + 1]

\* A list of fewer than two entries takes no draw.
drawn_on(rng, len) == IF len < 2 THEN rng ELSE rng + 1

\* np.random.shuffle(lst) with the generator at rng: the list afterwards.
shuffle(lst, rng) == [n \in 1 .. Len(lst) |-> lst[permuted(rng, Len(lst))[n]]]

\* Faulty variant of set_state: the generator is left where the previous
\* shuffle took it.
set_state_skipped(rng_state, current) == current

\* np.random.set_state(rng_state), lines 361 and 363, with the generator at
\* current: the generator afterwards.
set_state(rng_state, current) == rng_state

\* shuffle_in_unison_scary, lines 358-364, entered with the generator at
\* rng: the three lists afterwards.
shuffle_in_unison_scary(a, b, c, rng) ==
    [Xi |-> shuffle(a, rng),
     Xv |-> shuffle(b, set_state(rng, drawn_on(rng, Len(a)))),
     y |-> shuffle(c, set_state(rng, drawn_on(set_state(rng, drawn_on(rng, Len(a))),
                                              Len(b))))]

\* Line 385 of fit_once.  The generator is not seeded; the states followed
\* are the one that leaves the order of the samples and the one that
\* reverses it.
shuffles(d) == {shuffle_in_unison_scary(d.Xi, d.Xv, d.y, rng) : rng \in 0 .. 1}

\* Lines 386-390 of fit_once: the loop over the total_batch full batches,
\* from batch i on.  calls counts the fit_on_batch calls made.
RECURSIVE fit_batches(_, _, _, _, _, _, _)
fit_batches(self, train, i, total_batch, w_new, calls, feeds) ==
    LET batch == get_batch(train.Xi, train.Xv, train.y, self.args.batch_size, i)
        step == fit_on_batch(self, batch[1], batch[2], batch[3], w_new)
    IN  IF i = total_batch
        THEN [raised |-> FALSE, sess |-> self.sess, calls |-> calls, feeds |-> feeds]
        ELSE IF step.raised
        THEN [raised |-> TRUE, sess |-> self.sess, calls |-> calls + 1,
              feeds |-> feeds \o step.feeds]
        ELSE fit_batches([self EXCEPT !.sess = step.sess], train, i + 1, total_batch,
                         w_new, calls + 1, feeds \o step.feeds)

\* Python's s[-i].
from_end(s, i) == s[Len(s) + 1 - i]

\* Faulty variant of training_termination: len(valid_result) >= 5 in place
\* of len(valid_result) > 5.
training_termination_from_five(self, valid_result) ==
    /\ Len(valid_result) >= 5
    /\ \A i \in 1 .. 4 :
        IF self.args.greater_is_better
        THEN from_end(valid_result, i) < from_end(valid_result, i + 1)
        ELSE from_end(valid_result, i) > from_end(valid_result, i + 1)

\* training_termination, lines 420-434.
training_termination(self, valid_result) ==
    IF Len(valid_result) > 5
    THEN IF self.args.greater_is_better
         THEN /\ from_end(valid_result, 1) < from_end(valid_result, 2)
              /\ from_end(valid_result, 2) < from_end(valid_result, 3)
              /\ from_end(valid_result, 3) < from_end(valid_result, 4)
              /\ from_end(valid_result, 4) < from_end(valid_result, 5)
         ELSE /\ from_end(valid_result, 1) > from_end(valid_result, 2)
              /\ from_end(valid_result, 2) > from_end(valid_result, 3)
              /\ from_end(valid_result, 3) > from_end(valid_result, 4)
              /\ from_end(valid_result, 4) > from_end(valid_result, 5)
    ELSE FALSE

\* Faulty variant of save_condition: a loss equal to best_loss saves too.
save_condition_le(self, loss) == loss <= self.best_loss /\ self.args.is_save = TRUE

\* Faulty variant of save_condition: is_save is not consulted.
save_condition_any(self, loss) == loss < self.best_loss

\* Line 400: the condition under which fit_once saves.
save_condition(self, loss) == loss < self.best_loss /\ self.args.is_save = TRUE

\* Lines 415-418: what fit_once returns.
fit_once_returns(self, has_valid, early_stopping) ==
    IF has_valid /\ early_stopping /\ training_termination(self, self.valid_loss)
    THEN FALSE
    ELSE TRUE

\* Lines 396-418 of fit_once, after both evaluations: self.valid_loss is
\* appended to, the model is saved if the loss improved, the trend decides
\* what is returned.  e is the evaluation of the validation data.
fit_once_valid(self, hst, early_stopping, feeds, e) ==
    IF e.raised
    THEN [raised |-> TRUE, sess |-> self.sess, best_loss |-> self.best_loss,
          valid_loss |-> self.valid_loss, saved |-> FALSE, hist |-> hst,
          has_valid |-> TRUE, early_stopping |-> early_stopping, value |-> TRUE,
          feeds |-> feeds \o e.feeds]
    ELSE [raised |-> FALSE, sess |-> self.sess,
          best_loss |-> IF save_condition(self, e.loss) THEN e.loss ELSE self.best_loss,
          valid_loss |-> Append(self.valid_loss, e.loss),
          saved |-> save_condition(self, e.loss),
          hist |-> IF save_condition(self, e.loss)
                   THEN [hst EXCEPT !.ckpt_eval = Len(self.valid_loss) + 1]
                   ELSE hst,
          has_valid |-> TRUE, early_stopping |-> early_stopping,
          value |-> fit_once_returns(
                        [self EXCEPT !.valid_loss = Append(self.valid_loss, e.loss)],
                        TRUE, early_stopping),
          feeds |-> feeds \o e.feeds]

\* Lines 392-398 of fit_once, after the training loop: e is the evaluation
\* of the training data.
fit_once_train(self, hst, has_valid, valid, early_stopping, loss, feeds, e) ==
    IF e.raised
    THEN [raised |-> TRUE, sess |-> self.sess, best_loss |-> self.best_loss,
          valid_loss |-> self.valid_loss, saved |-> FALSE, hist |-> hst,
          has_valid |-> has_valid, early_stopping |-> early_stopping, value |-> TRUE,
          feeds |-> feeds \o e.feeds]
    ELSE IF has_valid
    THEN fit_once_valid(self, hst, early_stopping, feeds \o e.feeds,
                        evaluate(self, valid.Xi, valid.Xv, valid.y, loss))
    ELSE [raised |-> FALSE, sess |-> self.sess, best_loss |-> self.best_loss,
          valid_loss |-> self.valid_loss, saved |-> FALSE, hist |-> hst,
          has_valid |-> FALSE, early_stopping |-> early_stopping,
          value |-> fit_once_returns(self, FALSE, early_stopping),
          feeds |-> feeds \o e.feeds]

\* Lines 386-398 of fit_once, after the training loop t.
fit_once_trained(self, hst, train, has_valid, valid, early_stopping, loss, t) ==
    IF t.raised
    THEN [raised |-> TRUE, sess |-> t.sess, best_loss |-> self.best_loss,
          valid_loss |-> self.valid_loss, saved |-> FALSE,
          hist |-> [hst EXCEPT !.calls = @ + t.calls],
          has_valid |-> has_valid, early_stopping |-> early_stopping, value |-> TRUE,
          feeds |-> t.feeds]
    ELSE fit_once_train([self EXCEPT !.sess = t.sess],
                        [hst EXCEPT !.calls = @ + t.calls],
                        has_valid, valid, early_stopping, loss, t.feeds,
                        evaluate([self EXCEPT !.sess = t.sess],
                                 train.Xi, train.Xv, train.y, loss))

\* fit_once, lines 377-418, on the shuffled training lists.  w_new is where
\* the optimizer leaves the variables, loss what log_loss returns.
fit_once(self, hst, train, has_valid, valid, early_stopping, w_new, loss) ==
    fit_once_trained(self, hst, train, has_valid, valid, early_stopping, loss,
                     fit_batches(self, train, 0, Len(train.y) \div self.args.batch_size,
                                 w_new, 0, <<>>))

\* What saver.save writes, line 402, and what the directory holds before.
NoCheckpoint == [exists |-> FALSE]

checkpoint(session) ==
    [exists |-> TRUE, weights |-> session.weights, global_step |-> session.global_step]

\* Faulty variant of restore: the checkpoint is looked up and not loaded.
restore_nothing(self, ck) == self.sess

\* restore as it would be if a missing checkpoint started the step count
\* again.
restore_or_reset(self, ck) ==
    IF ck.exists
    THEN [weights |-> ck.weights, global_step |-> ck.global_step]
    ELSE [weights |-> self.sess.weights, global_step |-> 0]

\* restore, lines 527-534: every saved variable is loaded, global_step too.
restore(self, ck) ==
    IF ck.exists
    THEN [weights |-> ck.weights, global_step |-> ck.global_step]
    ELSE self.sess

(***************************************************************************)
(* The operations on the object.                                           *)
(***************************************************************************)
Idle == [phase |-> "idle"]

NoHist == [calls |-> 0, restored |-> FALSE, ckpt_eval |-> 0]

Constructed == [op |-> "__init__", raised |-> FALSE]

\* The configurations: every batch size of a set, every greater_is_better
\* of a set.
Configs(batch_sizes, greater) ==
    [batch_size : batch_sizes, is_save : BOOLEAN, greater_is_better : greater,
     ks : {<<2, 1>>}, dropout_keep_prob : {dropout_keep_prob}]

\* __init__, lines 120-160, and _init_graph: best_loss is 1.0, the lists
\* are empty, the initializer draws the variables, global_step is 0.
InitObject(w0) ==
    /\ sess = [weights |-> w0, global_step |-> 0]
    /\ best_loss = LossUnit
    /\ valid_loss = <<>>
    /\ hist = NoHist
    /\ ret = Constructed

Init ==
    /\ args \in Configs(1 .. MaxBatchSize, {FALSE})
    /\ \E w0 \in WeightIds : InitObject(w0)
    /\ ckpt = NoCheckpoint
    /\ fwd = Idle

\* A new object with the same arguments; the directory keeps its files.
Construct ==
    /\ \E w0 \in WeightIds : sess' = [weights |-> w0, global_step |-> 0]
    /\ best_loss' = LossUnit
    /\ valid_loss' = <<>>
    /\ hist' = NoHist
    /\ ret' = Constructed
    /\ UNCHANGED <<args, ckpt, fwd>>

\* predict, visualize and evaluate assign to no variable of the session and
\* to no attribute of the object; before is the session they were called on.
returned(op, d, r) ==
    /\ ret' = [op |-> op, data |-> d, before |-> sess, result |-> r]
    /\ UNCHANGED <<args, sess, best_loss, valid_loss, ckpt, hist, fwd>>

Predict == \E d \in DataSets : returned("predict", d, predict(Self, d.Xi, d.Xv))

Visualize == \E d \in DataSets : returned("visualize", d, visualize(Self, d.Xi, d.Xv, d.y))

Evaluate ==
    \E d \in DataSets, loss \in Losses :
        returned("evaluate", d, evaluate(Self, d.Xi, d.Xv, d.y, loss))

\* A call of fit_on_batch on one batch, by the caller.
trained(d, r) ==
    /\ sess' = r.sess
    /\ hist' = [hist EXCEPT !.calls = @ + 1]
    /\ ret' = [op |-> "fit_on_batch", data |-> d,
               result |-> [raised |-> r.raised, feeds |-> r.feeds]]
    /\ UNCHANGED <<args, best_loss, valid_loss, ckpt, fwd>>

FitOnBatch ==
    /\ hist.calls < MaxSteps
    /\ sess.global_step < MaxSteps
    /\ \E d \in DataSets, w_new \in WeightIds :
        /\ <<d.Xi, d.Xv>> \in Batches
        /\ trained(d, fit_on_batch(Self, d.Xi, d.Xv, [n \in 1 .. Len(d.y) |-> <<d.y[n]>>],
                                   w_new))

\* Xi_valid, Xv_valid, y_valid = None, the default: has_valid, the test
\* "Xv_valid is not None", is false and the three are never read.
NoData == <<FALSE, dataset(<<>>)>>

\* The validation data fit_once is called with, if any: data evaluate
\* accepts, data of a size it may raise on, data of one class.
ValidSets == {alternating(2), alternating(3), dataset(<<1, 1>>)}

fitted(d, valid, r) ==
    /\ sess' = r.sess
    /\ best_loss' = r.best_loss
    /\ valid_loss' = r.valid_loss
    /\ ckpt' = IF r.saved THEN checkpoint(r.sess) ELSE ckpt
    /\ hist' = r.hist
    /\ ret' = [op |-> "fit_once", data |-> d, valid |-> valid,
               result |-> [raised |-> r.raised, value |-> r.value, saved |-> r.saved,
                           has_valid |-> r.has_valid, early_stopping |-> r.early_stopping,
                           best_before |-> best_loss, evaluated |-> r.valid_loss # valid_loss,
                           feeds |-> r.feeds]]
    /\ UNCHANGED <<args, fwd>>

\* A call of fit_once: training data of train_sets, validation data of
\* valid_sets or none, the optimizer leaving the variables at one of
\* weight_ids, log_loss returning one of losses; within max_steps optimizer
\* steps and max_evals evaluations.
FitOnceOn(train_sets, valid_sets, weight_ids, losses, max_steps, max_evals) ==
    \E d \in train_sets, v \in {<<TRUE, valid>> : valid \in valid_sets} \cup {NoData},
       early_stopping \in BOOLEAN :
        /\ hist.calls + Len(d.y) \div args.batch_size <= max_steps
        /\ sess.global_step + Len(d.y) \div args.batch_size <= max_steps
        /\ Len(valid_loss) < max_evals
        /\ \E train \in shuffles(d), w_new \in weight_ids, loss \in losses :
            fitted(d, v[2],
                   fit_once(Self, hist, train, v[1], v[2], early_stopping, w_new, loss))

FitOnce == FitOnceOn(DataSets, ValidSets, WeightIds, Losses, MaxSteps, MaxEvals)

Restore ==
    /\ sess' = restore(Self, ckpt)
    /\ hist' = [hist EXCEPT !.restored = TRUE]
    /\ ret' = [op |-> "restore", fresh |-> ret = Constructed, found |-> ckpt.exists,
               before |-> sess]
    /\ UNCHANGED <<args, best_loss, valid_loss, ckpt, fwd>>

Next ==
    \/ Construct
    \/ Predict
    \/ Visualize
    \/ Evaluate
    \/ FitOnBatch
    \/ FitOnce
    \/ Restore

Spec == Init /\ [][Next]_vars

(***************************************************************************)
(* One session run followed through the block stack, lines 206-226: the    *)
(* graph calls gat_attention for field 0, 1, ... of layer 0, then of layer *)
(* 1, ...; fwd.res is what the last call computed, fwd.at its (layer,      *)
(* field).  The object's ks and the session's weights are those of the     *)
(* state.                                                                  *)
(***************************************************************************)
\* What gat_attention computes for field j of layer i in the run on batch.
field_run(batch, i, j) == Forward[sess.weights][args.ks][batch].trace[i + 1][j + 1]

\* The (layer, field) after (i, j) in the loops of lines 206-207.
next_field(i, j) == IF j + 1 = field_size THEN <<i + 1, 0>> ELSE <<i, j + 1>>

InitAttn ==
    /\ args \in [batch_size : {MaxBatchSize}, is_save : {FALSE}, greater_is_better : {FALSE},
                 ks : KsChoices, dropout_keep_prob : {dropout_keep_prob}]
    /\ \E w0 \in WeightIds : InitObject(w0)
    /\ ckpt = NoCheckpoint
    /\ fwd = Idle

\* sess.run is called with a batch.
Feed ==
    /\ fwd.phase \in {"idle", "out", "raised"}
    /\ \E batch \in Batches : fwd' = [phase |-> "block", batch |-> batch, next |-> <<0, 0>>]
    /\ UNCHANGED objVars

\* The next gat_attention of the run.
GatAttention ==
    /\ fwd.phase = "block"
    /\ fwd.next[1] < blocks
    /\ LET res == field_run(fwd.batch, fwd.next[1], fwd.next[2])
       IN  fwd' = [phase |-> IF res.raised THEN "raised" ELSE "block",
                   batch |-> fwd.batch,
                   next |-> next_field(fwd.next[1], fwd.next[2]),
                   at |-> fwd.next,
                   res |-> res]
    /\ UNCHANGED objVars

\* Lines 228-247: the run returns self.out and self.v_list.
Out ==
    /\ fwd.phase = "block"
    /\ fwd.next[1] = blocks
    /\ fwd' = [phase |-> "out", batch |-> fwd.batch,
               out |-> Forward[sess.weights][args.ks][fwd.batch].out,
               v_list |-> Forward[sess.weights][args.ks][fwd.batch].v_list]
    /\ UNCHANGED objVars

NextAttn ==
    \/ Feed
    \/ GatAttention
    \/ Out

SpecAttn == InitAttn /\ [][NextAttn]_vars

\* A gat_attention of the run has returned: its result, layer and k.
attended == fwd.phase = "block" /\ fwd.next # <<0, 0>>

\* A gat_attention of the run has computed the selector's output, whether
\* it returned or raised after line 88.
selector_ran == attended \/ (fwd.phase = "raised" /\ fwd.res.scores # <<>>)

\* The scores of line 84 and the selector's output S of line 88, as rows:
\* one per sample, or the one vector left by the squeeze of a one-sample
\* batch.
score_rows == IF fwd.res.raised THEN <<fwd.res.scores>> ELSE fwd.res.scores

selected_rows ==
    IF fwd.res.raised
    THEN <<fwd.res.S>>
    ELSE [b \in 1 .. Len(fwd.res.S) |-> [f \in 1 .. field_size |-> fwd.res.S[b][f][1]]]

k_layer == args.ks[fwd.at[1] + 1]

\* The number of nonzero entries of a vector.
count_nonzero(row) == Cardinality({f \in 1 .. Len(row) : row[f] # 0})

\* The k-th largest entry of a vector, by counting.
kth_largest(row, k) ==
    CHOOSE v \in {row[f] : f \in 1 .. Len(row)} :
        /\ Cardinality({f \in 1 .. Len(row) : row[f] > v}) < k
        /\ Cardinality({f \in 1 .. Len(row) : row[f] >= v}) >= k

\* The fields whose score equals the k-th largest.
at_cutoff(row, k) == {f \in 1 .. Len(row) : row[f] = kth_largest(row, k)}


\* The visibility vector of sample b: vis of line 90.
visibility(b) == fwd.res.vis[b][1]

\* C2: for every layer, query field and sample, with 1 <= ks[i] <= field_size,
\* the selector's output has exactly ks[i] nonzero entries when no other score
\* equals the ks[i]-th largest; every field whose score equals that threshold
\* is retained; the number of nonzero entries is at least ks[i].
C2_selector_count ==
    selector_ran =>
        \A b \in 1 .. Len(score_rows) :
            /\ 1 <= k_layer /\ k_layer <= field_size
            /\ Len(selected_rows[b]) = field_size
            /\ Cardinality(at_cutoff(score_rows[b], k_layer)) = 1
                   => count_nonzero(selected_rows[b]) = k_layer
            /\ \A f \in at_cutoff(score_rows[b], k_layer) : selected_rows[b][f] # 0
            /\ count_nonzero(selected_rows[b]) >= k_layer

\* A selector call with fewer than field_size fields asked for, one sample
\* whose cutoff score is unique and one whose cutoff score is tied.
C2_witness ==
    /\ attended
    /\ k_layer < field_size
    /\ \E b \in 1 .. Len(score_rows) :
        /\ Cardinality(at_cutoff(score_rows[b], k_layer)) = 1
        /\ count_nonzero(selected_rows[b]) = k_layer
    /\ \E b \in 1 .. Len(score_rows) :
        /\ Cardinality(at_cutoff(score_rows[b], k_layer)) > 1
        /\ count_nonzero(selected_rows[b]) > k_layer

RECURSIVE ProdTo(_, _)
ProdTo(s, n) == IF n = 0 THEN 1 ELSE s[n] * ProdTo(s, n - 1)

\* The sum of the fractions fr[f].num / fr[f].den equals 1.
sums_to_one(fr) ==
    LET den == ProdTo([f \in 1 .. Len(fr) |-> fr[f].den], Len(fr))
    IN  SumSeq([f \in 1 .. Len(fr) |-> fr[f].num * (den \div fr[f].den)]) = den

\* C5: for every sample, layer, query field and head, the weights the softmax
\* produces are non-negative and sum to 1 across the field axis.
C5_softmax_weights ==
    attended =>
        \A r \in 1 .. Len(fwd.res.weights) :
            \A c \in 1 .. Len(fwd.res.weights[r][1]) :
                /\ \A f \in 1 .. Len(fwd.res.weights[r]) :
                    /\ fwd.res.weights[r][f][c].num >= 0
                    /\ fwd.res.weights[r][f][c].den > 0
                /\ sums_to_one([f \in 1 .. Len(fwd.res.weights[r]) |->
                                   fwd.res.weights[r][f][c]])

\* Weights of heads * batch rows over field_size fields, not all equal.
C5_witness ==
    /\ attended
    /\ Len(fwd.res.weights) = heads * Len(fwd.batch[1])
    /\ \E r \in 1 .. Len(fwd.res.weights) :
        /\ Len(fwd.res.weights[r]) = field_size
        /\ \E f, g \in 1 .. field_size :
            fwd.res.weights[r][f][1].num # fwd.res.weights[r][g][1].num


(***************************************************************************)
(* Properties of the operations, over Spec.                                *)
(***************************************************************************)
\* The session run on sample n of the data d, in a batch of two copies of it.
sample_run(d, n) ==
    Forward[sess.weights][args.ks][<< <<d.Xi[n], d.Xi[n]>>, <<d.Xv[n], d.Xv[n]>> >>]

\* The model's output for sample n of d.
output_of(d, n) == sample_run(d, n).out[1][1]

\* The selector's output for query field j at layer i of sample n of d
\* (i and j counted from 1).
selector_of(d, n, i, j) ==
    [f \in 1 .. field_size |-> sample_run(d, n).trace[i][j].S[1][f][1]]

\* C1: for any input of N >= 1 samples and any batch_size >= 1, predict
\* returns exactly N scores and the score at position n is the model's
\* output for input sample n.
C1_predict_scores ==
    (ret.op = "predict" /\ Len(ret.data.y) >= 1) =>
        /\ ~ret.result.raised
        /\ ~ret.result.y_pred.none
        /\ Len(ret.result.y_pred.array) = Len(ret.data.y)
        /\ \A n \in 1 .. Len(ret.data.y) :
            ret.result.y_pred.array[n] = output_of(ret.data, n)

\* C4: visualize returns one record per input sample, in input order; the
\* visibility tensor of record b has shape [blocks, field_size, field_size]
\* and its row [i, j, :] is the selector's output for query field j at layer
\* i of sample b, with ks[i] or more nonzero entries.
C4_visualize_records ==
    ret.op = "visualize" =>
        /\ ~ret.result.raised
        /\ Len(ret.result.visualization) = Len(ret.data.y)
        /\ \A b \in 1 .. Len(ret.data.y) :
            /\ ret.result.visualization[b].Xi = ret.data.Xi[b]
            /\ ret.result.visualization[b].Xv = ret.data.Xv[b]
            /\ Len(ret.result.visualization[b].vis) = blocks
            /\ \A i \in 1 .. blocks :
                /\ Len(ret.result.visualization[b].vis[i]) = field_size
                /\ \A j \in 1 .. field_size :
                    /\ ret.result.visualization[b].vis[i][j] = selector_of(ret.data, b, i, j)
                    /\ count_nonzero(ret.result.visualization[b].vis[i][j]) >= args.ks[i]

\* The model that saved the checkpoint, as it was when it saved.
saved_model == [Self EXCEPT !.sess = [weights |-> ckpt.weights,
                                      global_step |-> ckpt.global_step]]

\* C6: a checkpoint holds the weights of the model that saved it; restore on
\* a model of the same configuration makes its weights equal to the saved
\* ones, and predict on any input then has the outcome it has in the model
\* that saved.
C6_restore_round_trip ==
    /\ (ret.op = "fit_once" /\ ret.result.saved) =>
        /\ ckpt.exists
        /\ ckpt.weights = sess.weights
    /\ (ret.op = "restore" /\ ret.found) =>
        /\ sess.weights = ckpt.weights
        /\ \A d \in DataSets :
            /\ predict(Self, d.Xi, d.Xv).raised = predict(saved_model, d.Xi, d.Xv).raised
            /\ predict(Self, d.Xi, d.Xv).y_pred = predict(saved_model, d.Xi, d.Xv).y_pred

\* restore on a freshly constructed model whose initial weights differ from
\* the saved ones, with an input on which predict returns scores that
\* depended on the weights.
C6_witness ==
    /\ ret.op = "restore"
    /\ ret.fresh
    /\ ret.found
    /\ ret.before.weights # ckpt.weights
    /\ \E d \in DataSets :
        /\ ~predict(Self, d.Xi, d.Xv).raised
        /\ Len(d.y) >= 1
        /\ predict(Self, d.Xi, d.Xv).y_pred
               # predict([Self EXCEPT !.sess = ret.before], d.Xi, d.Xv).y_pred

\* The least entry of a non-empty sequence of losses.
least(losses) == CHOOSE v \in {losses[n] : n \in 1 .. Len(losses)} :
                     \A n \in 1 .. Len(losses) : v <= losses[n]

\* C7: fit_once writes a checkpoint if and only if validation data is
\* supplied, is_save is True and the new validation loss is strictly lower
\* than best_loss (initially 1.0); the most recently saved checkpoint of the
\* object belongs to the evaluation with the lowest validation loss so far.
C7_checkpoint_on_improvement ==
    /\ ret.op = "fit_once" =>
        (ret.result.saved <=>
            /\ ret.result.has_valid
            /\ args.is_save
            /\ ret.result.evaluated
            /\ valid_loss[Len(valid_loss)] < ret.result.best_before)
    /\ ret.op = "__init__" => best_loss = LossUnit
    /\ hist.ckpt_eval # 0 =>
        /\ ckpt.exists
        /\ hist.ckpt_eval <= Len(valid_loss)
        /\ valid_loss[hist.ckpt_eval] = least(valid_loss)
        /\ best_loss = least(valid_loss)

\* A second checkpoint of the object, written on a lower loss than the first.
C7_witness ==
    /\ ret.op = "fit_once"
    /\ ret.result.saved
    /\ ret.result.best_before < LossUnit
    /\ hist.ckpt_eval = 2

\* C9: over any sequence of fit_on_batch, fit_once, predict, evaluate and
\* visualize calls, global_step equals the number of fit_on_batch calls
\* made, and predict, evaluate and visualize leave the weights and
\* global_step unchanged.
C9_step_per_call ==
    /\ ret.op \in {"predict", "evaluate", "visualize"} => sess = ret.before
    /\ ~hist.restored => sess.global_step = hist.calls

\* The feed_dict of a pass is that of an inference pass / a training pass.
inference_mode(feed) ==
    /\ feed.train_phase = FALSE
    /\ \A p \in 1 .. Len(feed.dropout_keep_prob) : feed.dropout_keep_prob[p] = keep_one

training_mode(feed) ==
    /\ feed.train_phase = TRUE
    /\ feed.dropout_keep_prob = args.dropout_keep_prob

\* The operations that run forward passes.
runs_passes == {"predict", "evaluate", "visualize", "fit_on_batch", "fit_once"}

\* C10: every forward pass issued by predict, evaluate or visualize runs
\* with train_phase False and every keep probability 1.0; every forward
\* pass issued by fit_on_batch runs with train_phase True and the configured
\* keep probabilities, whatever was called before.
C10_run_mode_per_pass ==
    ret.op \in runs_passes =>
        /\ \A n \in 1 .. Len(ret.result.feeds) :
            /\ ret.result.feeds[n].by \in {"predict", "visualize"}
                   => inference_mode(ret.result.feeds[n])
            /\ ret.result.feeds[n].by = "fit_on_batch"
                   => training_mode(ret.result.feeds[n])
        /\ ret.op \in {"predict", "evaluate"}
               => \A n \in 1 .. Len(ret.result.feeds) : ret.result.feeds[n].by = "predict"
        /\ ret.op = "visualize"
               => \A n \in 1 .. Len(ret.result.feeds) : ret.result.feeds[n].by = "visualize"
        /\ ret.op = "fit_on_batch"
               => \A n \in 1 .. Len(ret.result.feeds) : ret.result.feeds[n].by = "fit_on_batch"

\* A fit_once whose last training pass is followed by an inference pass of
\* its evaluation, the configured keep probabilities not being 1.0.
C10_witness ==
    /\ ret.op = "fit_once"
    /\ \E n \in 1 .. Len(ret.result.feeds) - 1 :
        /\ ret.result.feeds[n].by = "fit_on_batch"
        /\ training_mode(ret.result.feeds[n])
        /\ ret.result.feeds[n].dropout_keep_prob[1] # keep_one
        /\ ret.result.feeds[n + 1].by = "predict"
        /\ inference_mode(ret.result.feeds[n + 1])


(***************************************************************************)
(* Early stopping: one object of either greater_is_better, trained by      *)
(* fit_once alone, on one batch of training data per call, for up to       *)
(* MaxStopEvals evaluations whose losses range over 0 .. MaxStopLoss.      *)
(***************************************************************************)
InitStop ==
    /\ args \in [batch_size : {2}, is_save : {FALSE}, greater_is_better : BOOLEAN,
                 ks : {<<2, 1>>}, dropout_keep_prob : {dropout_keep_prob}]
    /\ InitObject(0)
    /\ ckpt = NoCheckpoint
    /\ fwd = Idle

FitOnceStop ==
    FitOnceOn({alternating(2)}, {alternating(2)}, {0}, 0 .. MaxStopLoss,
              MaxStopEvals, MaxStopEvals)

SpecStop == InitStop /\ [][FitOnceStop]_vars

\* Each of the last five validation losses is higher than the one before it.
worsening(losses) ==
    /\ Len(losses) >= 5
    /\ \A n \in Len(losses) - 3 .. Len(losses) : losses[n] > losses[n - 1]

\* Each of the last five validation losses is lower than the one before it.
improving(losses) ==
    /\ Len(losses) >= 5
    /\ \A n \in Len(losses) - 3 .. Len(losses) : losses[n] < losses[n - 1]

\* C8: fit_once returns False only when early_stopping is requested,
\* validation data is supplied and each of the last validation losses is
\* higher than the one before it; in every other case, in particular when
\* the validation loss has been improving, it returns True, for every
\* setting of greater_is_better.
C8_stop_only_on_worsening ==
    (ret.op = "fit_once" /\ ~ret.result.raised) =>
        /\ ret.result.value = FALSE =>
            /\ ret.result.early_stopping
            /\ ret.result.has_valid
            /\ worsening(valid_loss)
        /\ improving(valid_loss) => ret.result.value = TRUE

\* evaluate was called on at least one sample whose labels are all equal, and
\* the prediction pass on those samples returned an array of scores.
constant_labels_scored ==
    /\ ret.op = "evaluate"
    /\ Len(ret.data.y) >= 1
    /\ one_class(ret.data.y)
    /\ LET p == predict([Self EXCEPT !.sess = ret.before],
                        ret.data.Xi, ret.data.Xv)
       IN  ~p.raised /\ p.y_pred # None

\* C11: evaluate called with labels that are all 0 or all 1 does not raise:
\* it returns a pair (AUC, logloss).
C11_constant_labels == constant_labels_scored => ~ret.result.raised

(***************************************************************************)
(* The block stack field by field.  The graph of lines 203-226 orders two  *)
(* gat_attention calls only through the tensor h: the session may run the  *)
(* fields of one layer in any order.  SpecLayer runs them so: fwd.h is the *)
(* tensor the fields of layer fwd.i read, fwd.fields what the fields run   *)
(* so far have produced.                                                   *)
(***************************************************************************)

\* Faulty variant of layer_input: the fields already run have overwritten
\* their rows of h.
layer_input_in_place(run) ==
    Eager([b \in 1 .. Len(run.h) |->
        Eager([f \in 1 .. Len(run.h[b]) |->
            IF f \in DOMAIN run.fields /\ ~run.fields[f].raised
            THEN run.fields[f].outputs[b][1]
            ELSE run.h[b][f]])])

\* Lines 210-211: the h every field of the layer slices is the tensor bound
\* at line 203 (the embeddings) or 223 (the previous layer's concat).
layer_input(run) == run.h

InitLayer ==
    /\ args \in [batch_size : {MaxBatchSize}, is_save : {FALSE}, greater_is_better : {FALSE},
                 ks : KsChoices, dropout_keep_prob : {dropout_keep_prob}]
    /\ \E w0 \in WeightIds : InitObject(w0)
    /\ ckpt = NoCheckpoint
    /\ fwd = Idle

\* sess.run is called with a batch; line 203: h is the embeddings.
FeedLayer ==
    /\ fwd.phase \in {"idle", "out", "raised"}
    /\ \E batch \in Batches :
        fwd' = [phase |-> "layer", batch |-> batch, i |-> 0,
                h |-> embedding_lookup(sess.weights, batch[1], batch[2]),
                fields |-> <<>>, h_list |-> <<>>, v_list |-> <<>>]
    /\ UNCHANGED objVars

\* Lines 208-220: the gat_attention of one field of the layer not yet run.
AttendField ==
    /\ fwd.phase = "layer"
    /\ \E j \in (0 .. field_size - 1) \ {f - 1 : f \in DOMAIN fwd.fields} :
        LET res == field_block(sess.weights, layer_input(fwd), fwd.i, j, args.ks)
        IN  fwd' = [fwd EXCEPT !.phase = IF res.raised THEN "raised" ELSE "layer",
                               !.fields = (j + 1 :> res) @@ fwd.fields]
    /\ UNCHANGED objVars

\* Lines 223-226: every field has run; h becomes the concat of their states.
ConcatLayer ==
    /\ fwd.phase = "layer"
    /\ DOMAIN fwd.fields = 1 .. field_size
    /\ LET layer == layer_concat(Eager([j \in 1 .. field_size |-> fwd.fields[j]]))
       IN  fwd' = [fwd EXCEPT !.phase = IF fwd.i + 1 = blocks THEN "out" ELSE "layer",
                              !.i = fwd.i + 1,
                              !.h = layer.h,
                              !.fields = <<>>,
                              !.h_list = Append(fwd.h_list, layer.h),
                              !.v_list = Append(fwd.v_list, layer.v)]
    /\ UNCHANGED objVars

NextLayer ==
    \/ FeedLayer
    \/ AttendField
    \/ ConcatLayer

SpecLayer == InitLayer /\ [][NextLayer]_vars

\* What the loops of lines 206-226, run in source order, compute for field j
\* of the layer in progress.
in_source_order(j) == Forward[sess.weights][args.ks][fwd.batch].trace[fwd.i + 1][j]

\* C12: whatever the order in which the fields of a layer are processed,
\* every field's new state and visibility are those of the run in source
\* order: they depend on the previous layer's completed tensor h only, and
\* layer i+1 reads the completed output of layer i.
C12_field_order ==
    fwd.phase \in {"layer", "raised"} =>
        \A j \in DOMAIN fwd.fields :
            /\ fwd.fields[j].raised = in_source_order(j).raised
            /\ ~fwd.fields[j].raised =>
                /\ fwd.fields[j].outputs = in_source_order(j).outputs
                /\ fwd.fields[j].vis = in_source_order(j).vis

\* Fields 1 and 2 of the second layer have run before its field 0, with
\* different new states.
C12_witness ==
    /\ fwd.phase = "layer"
    /\ fwd.i = 1
    /\ DOMAIN fwd.fields = {2, 3}
    /\ fwd.fields[2].outputs # fwd.fields[3].outputs

\* The sample whose logits row r of the head-stacked layout holds, by the
\* concat of line 75: the rows of one head are consecutive.
sample_of_row(r) == ((r - 1) % Len(fwd.res.S)) + 1

\* C13: the selector's output keeps the original score at every retained
\* position (score at least the k-th largest) and 0 at every other position;
\* this same vector is multiplied into the attention logits of every head
\* before the softmax, and is returned as the visibility vector.
C13_selector_output ==
    /\ selector_ran =>
        \A b \in 1 .. Len(score_rows) : \A f \in 1 .. field_size :
            selected_rows[b][f] =
                IF score_rows[b][f] >= kth_largest(score_rows[b], k_layer)
                THEN score_rows[b][f]
                ELSE 0
    /\ attended =>
        /\ Len(fwd.res.logits) = heads * Len(fwd.res.S)
        /\ \A r \in 1 .. Len(fwd.res.logits) : \A f \in 1 .. field_size :
            fwd.res.logits[r][f][1] = fwd.res.S[sample_of_row(r)][f][1] * fwd.res.A_[r][f][1]
        /\ fwd.res.weights = softmax(fwd.res.logits)
        /\ \A b \in 1 .. Len(fwd.res.S) : \A f \in 1 .. field_size :
            fwd.res.vis[b][1][f] = fwd.res.S[b][f][1]

\* A sample with a retained field whose score is not the indicator value 1
\* and whose logit is nonzero, and with a field set to 0.
C13_witness ==
    /\ attended
    /\ \E b \in 1 .. Len(fwd.res.S) :
        /\ \E f \in 1 .. field_size :
            /\ fwd.res.S[b][f][1] > 1
            /\ fwd.res.vis[b][1][f] = fwd.res.scores[b][f]
            /\ fwd.res.logits[b][f][1] > 0
        /\ \E f \in 1 .. field_size : fwd.res.S[b][f][1] = 0 /\ fwd.res.scores[b][f] # 0

\* The fields the top-k selection of sample b masked out.
masked_fields(b) == {f \in 1 .. field_size : fwd.res.S[b][f][1] = 0}

\* C14: a field masked out by the top-k selection gets logit 0 before the
\* softmax and a strictly positive attention weight, exp(0) divided by the
\* softmax normaliser; every field has nonzero attention weight, also when
\* k_layer < field_size.
C14_masked_weight ==
    attended =>
        \A r \in 1 .. Len(fwd.res.weights) :
            /\ \A f \in masked_fields(sample_of_row(r)) :
                /\ fwd.res.logits[r][f][1] = 0
                /\ fwd.res.weights[r][f][1].num = exp(0)
            /\ \A f \in 1 .. field_size :
                /\ fwd.res.weights[r][f][1].num > 0
                /\ fwd.res.weights[r][f][1].den
                       = SumSeq([g \in 1 .. field_size |-> exp(fwd.res.logits[r][g][1])])

\* With k_layer < field_size, a masked field shares the softmax with a
\* retained field of larger weight.
C14_witness ==
    /\ attended
    /\ k_layer < field_size
    /\ \E r \in 1 .. Len(fwd.res.weights) :
        /\ \E f \in masked_fields(sample_of_row(r)) : fwd.res.weights[r][f][1].num = 1
        /\ \E f \in 1 .. field_size : fwd.res.weights[r][f][1].num > 1

(***************************************************************************)
(* Graph construction: the variables the gat_attention calls of lines      *)
(* 206-220 create or reuse, for models of 1..MaxBlocks layers over         *)
(* 1..MaxFields fields.  A variable is <<scope, name>>, the name one of    *)
(* AttName .. Gsl2Name, the ones the forward pass reads its weights under. *)
(* fwd.variables maps every variable to the call <<block, field>> that     *)
(* created it, fwd.reads every call to the variables its layers use.       *)
(***************************************************************************)
MaxBlocks == 3
MaxFields == 3

\* tf.layers.dense(name=...) under tf.variable_scope(scope): with reuse set
\* the layer's variables must exist and are returned, without it they must
\* not exist and are created (tf.get_variable raises ValueError otherwise).
dense_variables(store, call, scope, name, reuse) ==
    IF store.raised \/ (reuse <=> <<scope, name>> \notin DOMAIN store.variables)
    THEN [store EXCEPT !.raised = TRUE]
    ELSE [store EXCEPT
             !.variables = IF reuse THEN @ ELSE (<<scope, name>> :> call) @@ @,
             !.reads = [@ EXCEPT ![call] = @ \cup {<<scope, name>>}]]

\* The calls of the loops of lines 206-207, for a model of nb layers over
\* nf fields.
calls(nb, nf) == (0 .. nb - 1) \X (0 .. nf - 1)

\* _init_graph is about to enter the loop of line 206.
building(nb, nf, residual) ==
    [phase |-> "build", blocks |-> nb, field_size |-> nf, has_residual |-> residual,
     at |-> <<0, 0>>, scope |-> "att_blocks", raised |-> FALSE,
     variables |-> <<>>, reads |-> [call \in calls(nb, nf) |-> {}]]

InitBuild ==
    /\ args \in Configs({MaxBatchSize}, {FALSE})
    /\ InitObject(0)
    /\ ckpt = NoCheckpoint
    /\ fwd \in {building(nb, nf, residual) :
                    nb \in 1 .. MaxBlocks, nf \in 1 .. MaxFields, residual \in BOOLEAN}

\* The store after a with-block, and the with-block (or the next call's
\* first one) that follows.
scoped(store, scope, at) ==
    fwd' = [store EXCEPT !.phase = IF store.raised THEN "raised"
                                   ELSE IF at[1] = fwd.blocks THEN "built"
                                   ELSE "build",
                         !.scope = scope,
                         !.at = at]

\* Lines 60-63.
AttScope ==
    /\ fwd.phase = "build" /\ fwd.scope = "att_blocks"
    /\ scoped(dense_variables(fwd, fwd.at, <<"att_blocks", fwd.at[1]>>,
                              AttName(fwd.at[1], fwd.at[2]), fwd.at[2] > 0),
              "w_blocks", fwd.at)
    /\ UNCHANGED objVars

\* Lines 64-67.
WScope ==
    /\ fwd.phase = "build" /\ fwd.scope = "w_blocks"
    /\ scoped(dense_variables(fwd, fwd.at, <<"w_blocks", fwd.at[1]>>,
                              WName(fwd.at[1], fwd.at[2]), FALSE),
              IF fwd.has_residual THEN "res_blocks" ELSE "gsl_blocks", fwd.at)
    /\ UNCHANGED objVars

\* Lines 68-72.
ResScope ==
    /\ fwd.phase = "build" /\ fwd.scope = "res_blocks"
    /\ scoped(dense_variables(fwd, fwd.at, <<"res_blocks", fwd.at[1]>>,
                              ResName(fwd.at[1], fwd.at[2]), FALSE),
              "gsl_blocks", fwd.at)
    /\ UNCHANGED objVars

\* Lines 79-83, and on to the next call of the loops of lines 206-207.
GslScope ==
    /\ fwd.phase = "build" /\ fwd.scope = "gsl_blocks"
    /\ scoped(dense_variables(
                  dense_variables(fwd, fwd.at, <<"gsl_blocks", fwd.at[1]>>,
                                  Gsl1Name(fwd.at[1], fwd.at[2]), fwd.at[2] > 0),
                  fwd.at, <<"gsl_blocks", fwd.at[1]>>,
                  Gsl2Name(fwd.at[1], fwd.at[2]), fwd.at[2] > 0),
              "att_blocks",
              IF fwd.at[2] + 1 = fwd.field_size
              THEN <<fwd.at[1] + 1, 0>>
              ELSE <<fwd.at[1], fwd.at[2] + 1>>)
    /\ UNCHANGED objVars

NextBuild ==
    \/ AttScope
    \/ WScope
    \/ ResScope
    \/ GslScope

SpecBuild == InitBuild /\ [][NextBuild]_vars

\* The variables of one kind (VarAtt .. VarGsl2) that the calls of the
\* given set read.
read_by(kind, among) ==
    {v \in UNION {fwd.reads[call] : call \in among} : v[2][1] = kind}

\* The calls that have passed the with-block of a kind.
passed(kind) ==
    {call \in DOMAIN fwd.reads : \E v \in fwd.reads[call] : v[2][1] = kind}

\* C15: each layer owns exactly one set of attention-score weights and one
\* set (two dense layers) of selector-scorer weights, created when field 0
\* is processed and reused, never re-created, for every field j > 0 of that
\* layer; value-projection and residual-projection weights are distinct for
\* every (layer, field) pair; no weight set is shared between two layers;
\* construction does not raise.
C15_weight_sharing ==
    fwd.phase \in {"build", "built", "raised"} =>
        /\ ~fwd.raised
        /\ \A kind \in {VarAtt, VarGsl1, VarGsl2} : \A call \in passed(kind) :
            /\ Cardinality(read_by(kind, {call})) = 1
            /\ \A v \in read_by(kind, {call}) : fwd.variables[v] = <<call[1], 0>>
            /\ \A other \in passed(kind) :
                call[1] = other[1] <=> read_by(kind, {call}) = read_by(kind, {other})
        /\ \A kind \in {VarW, VarRes} : \A call \in passed(kind) :
            /\ Cardinality(read_by(kind, {call})) = 1
            /\ \A v \in read_by(kind, {call}) : fwd.variables[v] = call
            /\ \A other \in passed(kind) \ {call} :
                read_by(kind, {call}) \cap read_by(kind, {other}) = {}
        /\ \A call, other \in DOMAIN fwd.reads :
            call[1] # other[1] => fwd.reads[call] \cap fwd.reads[other] = {}
        /\ DOMAIN fwd.variables = UNION {fwd.reads[call] : call \in DOMAIN fwd.reads}
        /\ fwd.phase = "built" =>
            /\ passed(VarAtt) = calls(fwd.blocks, fwd.field_size)
            /\ passed(VarGsl2) = calls(fwd.blocks, fwd.field_size)
            /\ fwd.has_residual <=> passed(VarRes) # {}
            /\ Cardinality(read_by(VarAtt, DOMAIN fwd.reads)) = fwd.blocks
            /\ Cardinality(read_by(VarGsl1, DOMAIN fwd.reads)) = fwd.blocks
            /\ Cardinality(read_by(VarW, DOMAIN fwd.reads)) = fwd.blocks * fwd.field_size

\* The graph of a model of several layers over several fields, with the
\* residual projection, is built.
C15_witness ==
    /\ fwd.phase = "built"
    /\ fwd.blocks = blocks /\ fwd.field_size = field_size /\ fwd.has_residual
    /\ Cardinality(DOMAIN fwd.variables) = 3 * blocks + 2 * blocks * field_size

(***************************************************************************)
(* The multi-value field of the movielens variant,                         *)
(* src/movielens/code/graphfm.py lines 183-198: the embedding tensor one   *)
(* session run computes from the single-value placeholders and the genre   *)
(* placeholders.  Quotients are kept exact, as [num, den].                 *)
(***************************************************************************)
MaxGenreBatch == 3
MaxEmbedding == 3

\* The width the source reshapes genre_value to, line 191.
genre_slots == 6

\* The genre rows a sample can carry: one, two or three genres, padded with
\* index 0 and value 0 to genre_slots entries.
GenreRows ==
    {[genre_index |-> <<1, 0, 0, 0, 0, 0>>, genre_value |-> <<1, 0, 0, 0, 0, 0>>],
     [genre_index |-> <<1, 2, 0, 0, 0, 0>>, genre_value |-> <<1, 1, 0, 0, 0, 0>>],
     [genre_index |-> <<0, 1, 2, 0, 0, 0>>, genre_value |-> <<1, 1, 1, 0, 0, 0>>]}

\* The batches fed: 1 .. MaxGenreBatch samples; every sample carries the
\* same field_size - 1 single-value features.
GenreBatches ==
    UNION {[1 .. n -> GenreRows] : n \in 1 .. MaxGenreBatch}

\* Lines 183-186 and 189-192: lookup in the shared table, d wide, times the
\* value.
lookup_multiply(w, d, index, value) ==
    [b \in 1 .. Len(index) |->
        [g \in 1 .. Len(index[b]) |->
            [c \in 1 .. d |-> Param(w, <<VarEmb, 0, 0>>, index[b][g], c) * value[b][g]]]]

\* Line 193 and the divisor of line 194: tf.reduce_sum(..., axis=1), no
\* keepdims.
reduce_sum_axis1(T) ==
    [b \in 1 .. Len(T) |->
        [c \in 1 .. Len(T[b][1]) |-> SumSeq([g \in 1 .. Len(T[b]) |-> T[b][g][c]])]]

reduce_sum_values(value) == [b \in 1 .. Len(value) |-> SumSeq(value[b])]

\* Line 194: tf.math.divide of a [B, d] tensor by a [B] tensor.  The shapes
\* broadcast from the last axis: the divisor's one axis is aligned with
\* the d axis.  Equal lengths divide column c by entry c; a divisor of one
\* entry divides everything by it; d = 1 spreads to [B, B]; any other pair
\* of shapes raises.
divide(num, den) ==
    IF Len(num[1]) = Len(den)
    THEN [raised |-> FALSE,
          value |-> [b \in 1 .. Len(num) |->
                        [c \in 1 .. Len(den) |-> [num |-> num[b][c], den |-> den[c]]]]]
    ELSE IF Len(den) = 1
    THEN [raised |-> FALSE,
          value |-> [b \in 1 .. Len(num) |->
                        [c \in 1 .. Len(num[b]) |-> [num |-> num[b][c], den |-> den[1]]]]]
    ELSE IF Len(num[1]) = 1
    THEN [raised |-> FALSE,
          value |-> [b \in 1 .. Len(num) |->
                        [c \in 1 .. Len(den) |-> [num |-> num[b][1], den |-> den[c]]]]]
    ELSE [raised |-> TRUE, value |-> <<>>]

\* Line 197: tf.concat([embeddings, expand_dims(embeddings_m, 1)], 1); the
\* last axes must agree.
concat_multi(single, multi) ==
    IF multi.raised \/ Len(multi.value[1]) # Len(single[1][1])
    THEN [raised |-> TRUE, embeddings |-> <<>>]
    ELSE [raised |-> FALSE,
          embeddings |-> [b \in 1 .. Len(single) |->
                             [f \in 1 .. Len(single[b]) + 1 |->
                                 IF f <= Len(single[b])
                                 THEN [c \in 1 .. Len(single[b][f]) |->
                                          [num |-> single[b][f][c], den |-> 1]]
                                 ELSE multi.value[b]]]]

\* Lines 183-198 in inference mode (the dropout of line 198 keeps all).
embeddings_multi(w, d, feat_index, feat_value, genre_index, genre_value) ==
    concat_multi(
        lookup_multiply(w, d, feat_index, feat_value),
        divide(reduce_sum_axis1(lookup_multiply(w, d, genre_index, genre_value)),
               reduce_sum_values(genre_value)))

InitMulti ==
    /\ args \in [batch_size : {MaxGenreBatch}, is_save : {FALSE}, greater_is_better : {FALSE},
                 ks : KsChoices, dropout_keep_prob : {dropout_keep_prob},
                 embedding_size : 1 .. MaxEmbedding]
    /\ \E w0 \in WeightIds : InitObject(w0)
    /\ ckpt = NoCheckpoint
    /\ fwd = Idle

\* A session run is fed a batch and computes self.embeddings.
FeedMulti ==
    /\ \E batch \in GenreBatches :
        fwd' = [phase |-> "embedded",
                genre_index |-> [b \in 1 .. Len(batch) |-> batch[b].genre_index],
                genre_value |-> [b \in 1 .. Len(batch) |-> batch[b].genre_value],
                res |-> embeddings_multi(
                            sess.weights, args.embedding_size,
                            [b \in 1 .. Len(batch) |-> [f \in 1 .. field_size - 1 |-> f]],
                            [b \in 1 .. Len(batch) |-> [f \in 1 .. field_size - 1 |-> 1]],
                            [b \in 1 .. Len(batch) |-> batch[b].genre_index],
                            [b \in 1 .. Len(batch) |-> batch[b].genre_value])]
    /\ UNCHANGED objVars

SpecMulti == InitMulti /\ [][FeedMulti]_vars

\* sum_j(table[idx_j] * val_j) of sample b, component c, and sum_j(val_j) of
\* sample b.
weighted_genres(b, c) ==
    SumSeq([g \in 1 .. genre_slots |->
        Param(sess.weights, <<VarEmb, 0, 0>>, fwd.genre_index[b][g], c) * fwd.genre_value[b][g]])

total_value(b) == SumSeq(fwd.genre_value[b])

\* C16: in the multi-value-field variant, for every batch size and embedding
\* size, the run computes the embeddings; the effective field vector of
\* sample b is sum_j(table[idx_j] * val_j) divided by that same sample's
\* sum_j(val_j), and it is the last of field_size fields.
C16_multi_value_field ==
    fwd.phase = "embedded" =>
        /\ ~fwd.res.raised
        /\ \A b \in 1 .. Len(fwd.genre_index) :
            /\ Len(fwd.res.embeddings[b]) = field_size
            /\ Len(fwd.res.embeddings[b][field_size]) = args.embedding_size
            /\ \A c \in 1 .. args.embedding_size :
                fwd.res.embeddings[b][field_size][c].num * total_value(b)
                    = weighted_genres(b, c) * fwd.res.embeddings[b][field_size][c].den

\* The runs that return the embeddings with sample b's field vector divided
\* by another sample's value sum.
C16_wrong_divisor ==
    /\ fwd.phase = "embedded"
    /\ ~fwd.res.raised
    /\ \E b \in 1 .. Len(fwd.genre_index), c \in 1 .. args.embedding_size :
        fwd.res.embeddings[b][field_size][c].num * total_value(b)
            # weighted_genres(b, c) * fwd.res.embeddings[b][field_size][c].den

\* The runs that raise.
C16_raises == fwd.phase = "embedded" /\ fwd.res.raised

(***************************************************************************)
(* The configuration.  __init__ (lines 120-160) stores blocks, block_shape *)
(* and ks as the caller passes them and checks none; _init_graph and the   *)
(* session raise where an operation cannot take them.  SpecConfig          *)
(* constructs a model from every configuration of 1..MaxBlocks layers and  *)
(* runs it on a batch of two or more samples.                              *)
(***************************************************************************)
\* The sequences of min_len .. n entries over a set.
lists(min_len, n, entries) == UNION {[1 .. len -> entries] : len \in min_len .. n}

ConfigArgs ==
    [batch_size : {MaxBatchSize}, is_save : {FALSE}, greater_is_better : {FALSE},
     dropout_keep_prob : {dropout_keep_prob},
     blocks : 1 .. MaxBlocks,
     block_shape : lists(1, MaxBlocks, {heads, heads + 1, 2 * heads}),
     ks : lists(0, MaxBlocks, 0 .. field_size + 1)]

\* Lines 206-220 at construction: self.ks[i] and self.block_shape[i] must
\* exist for every block (IndexError otherwise), and tf.split of line 76
\* needs num_units divisible by num_heads.
blocks_build(a) ==
    /\ Len(a.ks) >= a.blocks
    /\ Len(a.block_shape) >= a.blocks
    /\ \A i \in 1 .. a.blocks : a.block_shape[i] % heads = 0

\* Lines 236-237: the width of self.flat, the concat of the blocks' outputs.
flat_width(a) == SumSeq([i \in 1 .. a.blocks |-> a.block_shape[i]])

\* Line 307: the rows of weights["prediction"].
input_size(a) == SumSeq(a.block_shape)

\* __init__ as it would be if it checked every ks entry against field_size.
construct_checked(a) ==
    IF \E i \in 1 .. Len(a.ks) : a.ks[i] > field_size
    THEN [op |-> "__init__", raised |-> TRUE]
    ELSE IF ~blocks_build(a) \/ flat_width(a) # input_size(a)
    THEN [op |-> "__init__", raised |-> TRUE]
    ELSE [op |-> "__init__", raised |-> FALSE,
          width |-> flat_width(a), rows |-> input_size(a)]

\* __init__ with _init_graph: tf.matmul of line 239 raises at construction
\* when the width of flat is not the row count of the prediction weight.
construct(a) ==
    IF ~blocks_build(a)
    THEN [op |-> "__init__", raised |-> TRUE]
    ELSE IF flat_width(a) # input_size(a)
    THEN [op |-> "__init__", raised |-> TRUE]
    ELSE [op |-> "__init__", raised |-> FALSE,
          width |-> flat_width(a), rows |-> input_size(a)]

\* A session run of the constructed graph on a batch of two or more
\* samples: tf.nn.top_k of line 85 raises where k exceeds field_size.
run_raises(a) == \E i \in 1 .. a.blocks : a.ks[i] > field_size

InitConfig ==
    /\ args \in ConfigArgs
    /\ sess = [weights |-> 0, global_step |-> 0]
    /\ best_loss = LossUnit
    /\ valid_loss = <<>>
    /\ hist = NoHist
    /\ ckpt = NoCheckpoint
    /\ ret = [op |-> "called"]
    /\ fwd = Idle

ConstructConfig ==
    /\ ret.op = "called"
    /\ ret' = construct(args)
    /\ UNCHANGED <<args, sess, best_loss, valid_loss, ckpt, hist, fwd>>

RunConfig ==
    /\ ret.op = "__init__" /\ ~ret.raised
    /\ fwd.phase = "idle"
    /\ fwd' = [phase |-> IF run_raises(args) THEN "raised" ELSE "out"]
    /\ UNCHANGED objVars

NextConfig ==
    \/ ConstructConfig
    \/ RunConfig

SpecConfig == InitConfig /\ [][NextConfig]_vars

\* C17: in a constructed model the vector fed to the prediction projection
\* has width sum(block_shape), the row count of the prediction weight, and
\* the configuration satisfies len(ks) = blocks and 1 <= ks[i] <= field_size
\* for all i.
C17_configuration ==
    (ret.op = "__init__" /\ ~ret.raised) =>
        /\ ret.width = SumSeq(args.block_shape)
        /\ ret.width = ret.rows
        /\ Len(args.ks) = args.blocks
        /\ \A i \in 1 .. Len(args.ks) : 1 <= args.ks[i] /\ args.ks[i] <= field_size

\* The width part of C17 alone.
C17_width ==
    (ret.op = "__init__" /\ ~ret.raised) =>
        /\ ret.width = SumSeq(args.block_shape)
        /\ ret.width = ret.rows
        /\ Len(args.block_shape) = args.blocks

\* A model with more ks than blocks is constructed and runs.
C17_extra_ks ==
    /\ ret.op = "__init__" /\ ~ret.raised
    /\ fwd.phase = "out"
    /\ Len(args.ks) > args.blocks

\* The batches of two or more samples that hold, at position p, the sample
\* that the batch of the run in progress holds at position b.
holding(b) ==
    {<<other, p>> \in Batches \X (1 .. MaxBatchSize) :
        /\ Len(other[1]) >= 2
        /\ p <= Len(other[1])
        /\ other[1][p] = fwd.batch[1][b]
        /\ other[2][p] = fwd.batch[2][b]}

\* Rows h * B + b of a head-stacked tensor of a batch of B samples, for all
\* heads h: the rows of sample b.
head_rows(T, B, b) == [h \in 1 .. heads |-> T[(h - 1) * B + b]]

\* C18: in a batch of two or more samples, rows h*B+b of the head-stacked
\* logits, masked logits and weights, and sample b's mask, block output and
\* visibility, are those of sample b in every other batch that holds the
\* same sample at any position; so the score and the visibility the run
\* returns for a sample depend on that sample's indices and values only.
C18_sample_isolation ==
    /\ attended =>
        \A b \in 1 .. Len(fwd.batch[1]) : \A o \in holding(b) :
            LET there == Forward[sess.weights][args.ks][o[1]].trace[fwd.at[1] + 1][fwd.at[2] + 1]
                B == Len(fwd.batch[1])
                Bo == Len(o[1][1])
            IN  /\ head_rows(fwd.res.A_, B, b) = head_rows(there.A_, Bo, o[2])
                /\ head_rows(fwd.res.logits, B, b) = head_rows(there.logits, Bo, o[2])
                /\ head_rows(fwd.res.weights, B, b) = head_rows(there.weights, Bo, o[2])
                /\ \A h \in 1 .. heads : \A f \in 1 .. field_size :
                    fwd.res.logits[(h - 1) * B + b][f][1]
                        = fwd.res.S[b][f][1] * fwd.res.A_[(h - 1) * B + b][f][1]
                /\ fwd.res.S[b] = there.S[o[2]]
                /\ fwd.res.outputs[b] = there.outputs[o[2]]
                /\ fwd.res.vis[b] = there.vis[o[2]]
    /\ fwd.phase = "out" =>
        \A b \in 1 .. Len(fwd.batch[1]) : \A o \in holding(b) :
            /\ fwd.out[b] = Forward[sess.weights][args.ks][o[1]].out[o[2]]
            /\ fwd.v_list[b] = Forward[sess.weights][args.ks][o[1]].v_list[o[2]]

\* A run on a batch of two samples whose masks and block outputs differ,
\* one of them also held by another batch at the other position.
C18_witness ==
    /\ attended
    /\ Len(fwd.batch[1]) = 2
    /\ fwd.res.S[1] # fwd.res.S[2]
    /\ fwd.res.outputs[1] # fwd.res.outputs[2]
    /\ \E o \in holding(1) : o[2] = 2 /\ o[1] # fwd.batch

\* More than five entries, the last five strictly decreasing when
\* greater_is_better is set and strictly increasing when it is not.
last_five_monotone(v, greater) ==
    /\ Len(v) > 5
    /\ \A n \in Len(v) - 3 .. Len(v) : IF greater THEN v[n - 1] > v[n] ELSE v[n - 1] < v[n]

\* C19: training_termination(v) returns True if and only if len(v) > 5 and
\* the last five entries are strictly decreasing (greater_is_better True) or
\* strictly increasing (greater_is_better False); with five or fewer entries,
\* or two equal adjacent values among the last five, it returns False.  Seen
\* through fit_once with validation data and early stopping, which returns
\* False exactly when training_termination(self.valid_loss) is True.
C19_termination ==
    (/\ ret.op = "fit_once"
     /\ ~ret.result.raised
     /\ ret.result.has_valid
     /\ ret.result.early_stopping) =>
        /\ ret.result.value = FALSE <=> last_five_monotone(valid_loss, args.greater_is_better)
        /\ Len(valid_loss) <= 5 => ret.result.value = TRUE
        /\ (\E n \in 1 .. Len(valid_loss) - 1 :
                n >= Len(valid_loss) - 4 /\ valid_loss[n] = valid_loss[n + 1])
               => ret.result.value = TRUE

\* fit_once stops on six recorded losses, the last five strictly decreasing,
\* with greater_is_better set.
C19_witness ==
    /\ ret.op = "fit_once"
    /\ ret.result.has_valid /\ ret.result.early_stopping
    /\ ret.result.value = FALSE
    /\ args.greater_is_better
    /\ Len(valid_loss) = 6
    /\ valid_loss[2] > valid_loss[3]

(***************************************************************************)
(* shuffle_in_unison_scary on its own: three aligned lists of up to MaxN   *)
(* samples, the generator at any of the states 0 .. MaxRng.                *)
(***************************************************************************)
MaxRng == 3

\* Two samples that differ in every list.
ShuffleRows ==
    << [Xi |-> <<1, 1, 0>>, Xv |-> <<1, 1, 1>>, y |-> 1],
       [Xi |-> <<2, 0, 1>>, Xv |-> <<1, 2, 1>>, y |-> 0] >>

ShuffleSets ==
    {[Xi |-> [n \in 1 .. Len(pick) |-> ShuffleRows[pick[n]].Xi],
      Xv |-> [n \in 1 .. Len(pick) |-> ShuffleRows[pick[n]].Xv],
      y |-> [n \in 1 .. Len(pick) |-> ShuffleRows[pick[n]].y]] : pick \in Picks(MaxN)}

InitShuffle ==
    /\ args \in Configs({MaxBatchSize}, {FALSE})
    /\ InitObject(0)
    /\ ckpt = NoCheckpoint
    /\ fwd = Idle

\* A call of shuffle_in_unison_scary; the lists are shuffled in place.
Shuffle ==
    /\ \E d \in ShuffleSets, rng \in 0 .. MaxRng :
        fwd' = [phase |-> "shuffled", rng |-> rng, before |-> d,
                after |-> shuffle_in_unison_scary(d.Xi, d.Xv, d.y, rng)]
    /\ UNCHANGED objVars

SpecShuffle == InitShuffle /\ [][Shuffle]_vars

\* C20: shuffle_in_unison_scary applies one and the same permutation to its
\* equal-length lists: some permutation q of the positions takes every list
\* before the call to the list after it, so position n of the three lists
\* still holds one original sample and the samples are the same multiset.
C20_shuffle_in_unison ==
    fwd.phase = "shuffled" =>
        /\ Len(fwd.after.Xi) = Len(fwd.before.Xi)
        /\ Len(fwd.after.Xv) = Len(fwd.before.Xv)
        /\ Len(fwd.after.y) = Len(fwd.before.y)
        /\ \E q \in Permutations(1 .. Len(fwd.before.y)) :
            \A n \in 1 .. Len(fwd.before.y) :
                /\ fwd.after.Xi[n] = fwd.before.Xi[q[n]]
                /\ fwd.after.Xv[n] = fwd.before.Xv[q[n]]
                /\ fwd.after.y[n] = fwd.before.y[q[n]]

\* Three or more samples, not all the same, come out in another order.
C20_witness ==
    /\ fwd.phase = "shuffled"
    /\ Len(fwd.before.y) >= 3
    /\ fwd.after.y # fwd.before.y
    /\ fwd.after.Xv # fwd.before.Xv

\* ceil(N / batch_size).
ceil_div(n, size) == (n + size - 1) \div size

\* predict or visualize has been called on some samples.
batch_loop_ran == ret.op \in {"predict", "visualize"}

\* The forward passes of the call that ret holds.
forward_passes == Len(ret.result.feeds)

\* C21: for every input of N samples and batch_size >= 1, the batch loop of
\* predict and of visualize ends, without raising, after exactly
\* ceil(N / batch_size) forward passes; for N = 0 predict performs no forward
\* pass and returns None.
C21_batch_loop ==
    batch_loop_ran =>
        /\ ~ret.result.raised
        /\ forward_passes = ceil_div(Len(ret.data.y), args.batch_size)
        /\ (ret.op = "predict" /\ Len(ret.data.y) = 0) =>
            /\ forward_passes = 0
            /\ ret.result.y_pred = None

\* C21 on the calls none of whose batches holds exactly one sample.
C21_full_batches ==
    (batch_loop_ran /\ args.batch_size > 1 /\ Len(ret.data.y) % args.batch_size # 1) =>
        /\ ~ret.result.raised
        /\ forward_passes = ceil_div(Len(ret.data.y), args.batch_size)
        /\ (ret.op = "predict" /\ Len(ret.data.y) = 0) => ret.result.y_pred = None

\* predict on two samples with batch_size 1 ends in its first forward pass.
C21_first_pass_raises ==
    /\ ret.op = "predict"
    /\ Len(ret.data.y) = 2 /\ args.batch_size = 1
    /\ ret.result.raised
    /\ forward_passes = 1

\* The training passes of the fit_once call that ret holds, and the
\* optimizer steps among them: a pass that raises makes no step.
training_passes == SelectSeq(ret.result.feeds, LAMBDA pass : pass.by = "fit_on_batch")

optimizer_steps ==
    IF /\ ret.result.raised
       /\ ret.result.feeds # <<>>
       /\ ret.result.feeds[Len(ret.result.feeds)].by = "fit_on_batch"
    THEN Len(training_passes) - 1
    ELSE Len(training_passes)

\* C22: one fit_once call over N training samples performs exactly
\* floor(N / batch_size) optimizer steps, each on a full batch of batch_size
\* samples; the N mod batch_size samples left over are not trained on, and
\* with N < batch_size no optimizer step is made.
C22_full_batch_steps ==
    ret.op = "fit_once" =>
        /\ optimizer_steps = Len(ret.data.y) \div args.batch_size
        /\ \A n \in 1 .. Len(training_passes) : training_passes[n].samples = args.batch_size
        /\ Len(ret.data.y) < args.batch_size => training_passes = <<>>

\* C22 on the models whose batches hold two samples or more.
C22_from_two ==
    (ret.op = "fit_once" /\ args.batch_size >= 2) =>
        /\ optimizer_steps = Len(ret.data.y) \div args.batch_size
        /\ \A n \in 1 .. Len(training_passes) : training_passes[n].samples = args.batch_size
        /\ Len(ret.data.y) < args.batch_size => training_passes = <<>>

\* fit_once over two samples with batch_size 1 makes no optimizer step.
C22_no_step ==
    /\ ret.op = "fit_once"
    /\ args.batch_size = 1 /\ Len(ret.data.y) = 2
    /\ ret.result.raised
    /\ optimizer_steps = 0

\* fit_once over three samples with batch_size 2 makes one step.
C22_one_left_over ==
    /\ ret.op = "fit_once"
    /\ args.batch_size = 2 /\ Len(ret.data.y) = 3
    /\ optimizer_steps = 1

(***************************************************************************)
(* best_loss: one object of either is_save, trained by fit_once alone for  *)
(* up to MaxBestEvals calls, with or without validation data, the          *)
(* validation losses ranging over 0 .. MaxStopLoss (below, at and above    *)
(* 1.0) and the validation labels of one or of two classes.                *)
(***************************************************************************)
MaxBestEvals == 4

InitBest ==
    /\ args \in [batch_size : {2}, is_save : BOOLEAN, greater_is_better : {FALSE},
                 ks : {<<2, 1>>}, dropout_keep_prob : {dropout_keep_prob}]
    /\ InitObject(0)
    /\ ckpt = NoCheckpoint
    /\ fwd = Idle

FitOnceBest ==
    FitOnceOn({alternating(2)}, {alternating(2), dataset(<<1, 1>>)}, {0}, 0 .. MaxStopLoss,
              MaxBestEvals, MaxBestEvals)

SpecBest == InitBest /\ [][FitOnceBest]_vars

\* min(1.0, every validation loss evaluated so far).
least_so_far == least(<<LossUnit>> \o valid_loss)

\* C23: across any sequence of fit_once calls best_loss never increases and
\* never exceeds its initial value 1.0; with is_save True it equals
\* min(1.0, every validation loss evaluated so far), with is_save False it
\* stays 1.0 even if the validation loss improves.
C23_best_loss ==
    /\ [](/\ best_loss <= LossUnit
          /\ args.is_save => best_loss = least_so_far
          /\ ~args.is_save => best_loss = LossUnit)
    /\ [][best_loss' <= best_loss]_vars

\* With is_save set, best_loss has come down twice and the latest
\* validation loss is above 1.0.
C23_witness ==
    /\ args.is_save
    /\ Len(valid_loss) = 3
    /\ valid_loss[1] < LossUnit
    /\ valid_loss[2] < valid_loss[1]
    /\ valid_loss[3] > LossUnit
    /\ best_loss = valid_loss[2]

\* With is_save unset, a validation loss below 1.0 has been recorded.
C23_unsaved_improvement ==
    /\ ~args.is_save
    /\ \E n \in 1 .. Len(valid_loss) : valid_loss[n] < LossUnit
    /\ best_loss = LossUnit

\* A gat_attention call of the run in progress has returned or raised.
selector_called == attended \/ fwd.phase = "raised"

\* C24: for every batch size >= 1, a batch of exactly one sample included,
\* the selector takes its top-k per sample along the field axis and yields
\* a visibility of shape [batch, 1, field_size]; the squeeze of the score
\* tensor does not remove the batch axis.
C24_selector_shape ==
    selector_called =>
        /\ ~fwd.res.raised
        /\ squeeze_shape(<<Len(fwd.batch[1]), field_size, 1>>)
               = <<Len(fwd.batch[1]), field_size>>
        /\ Len(fwd.res.vis) = Len(fwd.batch[1])
        /\ \A b \in 1 .. Len(fwd.res.vis) :
            /\ Len(fwd.res.vis[b]) = 1
            /\ Len(fwd.res.vis[b][1]) = field_size
            /\ count_nonzero(fwd.res.vis[b][1]) >= k_layer

\* C24 on the batches of two or more samples.
C24_from_two ==
    (selector_called /\ Len(fwd.batch[1]) >= 2) =>
        /\ ~fwd.res.raised
        /\ squeeze_shape(<<Len(fwd.batch[1]), field_size, 1>>)
               = <<Len(fwd.batch[1]), field_size>>
        /\ Len(fwd.res.vis) = Len(fwd.batch[1])
        /\ \A b \in 1 .. Len(fwd.res.vis) :
            /\ Len(fwd.res.vis[b]) = 1
            /\ Len(fwd.res.vis[b][1]) = field_size
            /\ count_nonzero(fwd.res.vis[b][1]) >= k_layer

\* The first gat_attention of a run on one sample raises, the squeeze
\* having left the field axis alone.
C24_one_sample_raises ==
    /\ fwd.phase = "raised"
    /\ Len(fwd.batch[1]) = 1
    /\ fwd.at = <<0, 0>>
    /\ squeeze_shape(<<1, field_size, 1>>) = <<field_size>>


(***************************************************************************)
(* The label of a visualize record, lines 476-506.                         *)
(***************************************************************************)
\* visualize has returned its records (the session run raised on no batch).
visualize_returned == ret.op = "visualize" /\ ~ret.result.raised

\* C25: visualize never reads its label argument y: the label stored in
\* every returned record is the dummy value [1], whatever labels the caller
\* passed, while the stored indices, values, score and visibility are those
\* of the corresponding input sample.
C25_dummy_label ==
    visualize_returned =>
        \A b \in 1 .. Len(ret.result.visualization) :
            /\ ret.result.visualization[b].y = <<1>>
            /\ ret.result.visualization[b].Xi = ret.data.Xi[b]
            /\ ret.result.visualization[b].Xv = ret.data.Xv[b]
            /\ ret.result.visualization[b].out = <<output_of(ret.data, b)>>
            /\ \A i \in 1 .. blocks, j \in 1 .. field_size :
                ret.result.visualization[b].vis[i][j] = selector_of(ret.data, b, i, j)

\* visualize has returned the record of a sample the caller labelled 0.
C25_witness ==
    /\ visualize_returned
    /\ \E b \in 1 .. Len(ret.result.visualization) :
        /\ ret.data.y[b] = 0
        /\ ret.result.visualization[b].y = <<1>>


(***************************************************************************)
(* What restore leaves alone, lines 527-534.                               *)
(***************************************************************************)
\* C26: restore called when the save path holds no checkpoint state is a
\* silent no-op: it raises nothing and leaves every weight, global_step and
\* best_loss unchanged; restore in any case never changes best_loss or the
\* recorded validation history.
C26_restore_frame ==
    [][ret'.op = "restore" =>
        /\ best_loss' = best_loss
        /\ valid_loss' = valid_loss
        /\ hist'.calls = hist.calls
        /\ ~ckpt.exists =>
            /\ ~ret'.found
            /\ sess'.weights = sess.weights
            /\ sess'.global_step = sess.global_step
            /\ ckpt' = ckpt]_vars

\* restore has found no checkpoint, in a model that has trained and has
\* recorded a validation loss.
C26_witness ==
    /\ ret.op = "restore"
    /\ ~ret.found
    /\ ~ret.fresh
    /\ sess.global_step > 0
    /\ ret.before = sess
    /\ valid_loss # <<>>

\* restore has loaded a checkpoint over other weights, in a model whose
\* best_loss is below 1.0 and whose validation history is not empty.
C26_loaded_keeps_best ==
    /\ ret.op = "restore"
    /\ ret.found
    /\ ret.before # sess
    /\ best_loss < LossUnit
    /\ valid_loss # <<>>


(***************************************************************************)
(* ks against field_size, lines 85-86 and 120-160.                         *)
(***************************************************************************)
\* Some layer of the configuration a has a k above field_size.
ks_over_fields(a) ==
    \E i \in 1 .. a.blocks : i <= Len(a.ks) /\ a.ks[i] > field_size

\* The configuration a with every ks entry replaced by new_k.
with_ks(a, new_k) == [a EXCEPT !.ks = [i \in 1 .. Len(a.ks) |-> new_k]]

\* C27: a configuration with ks[i] > field_size for some layer i is not
\* validated, clamped or reported: construction has the outcome it has with
\* every ks entry in range, and with the ks entries beyond blocks dropped;
\* the constructed model's session run raises in top-k, and it raises for no
\* other ks.
C27_unvalidated_ks ==
    /\ ret.op = "__init__" =>
        /\ ret.raised = construct(with_ks(args, 1)).raised
        /\ Len(args.ks) > args.blocks =>
            ret.raised = construct([args EXCEPT !.ks = SubSeq(args.ks, 1, args.blocks)]).raised
    /\ (ret.op = "__init__" /\ fwd.phase # "idle") =>
        /\ ~ret.raised
        /\ fwd.phase = "raised" <=> ks_over_fields(args)
        /\ fwd.phase = "out" <=> ~ks_over_fields(args)

\* A model with a k above field_size at some layer has been constructed and
\* its session run has raised.
C27_witness ==
    /\ ret.op = "__init__"
    /\ ~ret.raised
    /\ ks_over_fields(args)
    /\ fwd.phase = "raised"

\* A model with more ks than blocks and a k above field_size only beyond
\* blocks has been constructed and its session run has returned.
C27_unread_k ==
    /\ ret.op = "__init__"
    /\ ~ret.raised
    /\ Len(args.ks) > args.blocks
    /\ \E i \in args.blocks + 1 .. Len(args.ks) : args.ks[i] > field_size
    /\ fwd.phase = "out"

=============================================================================
